---- MODULE Spec2Model ----
(***************************************************************************)
(* State-machine model of the risk-guardrail agent AIAgent                 *)
(* (src/src/ai_agent.py): observe / evaluate / apply / maybe_resume, run   *)
(* once per host control-loop tick.                                        *)
(*                                                                         *)
(* Numbers.  Python floats are modelled in fixed point: every ratio        *)
(* (volatility, PnL percent, thresholds, grid spacing, EMA coefficients)   *)
(* is an integer count of 1/Unit, so 0.08 is 80 and 0.016 is 16.  Money    *)
(* (balance) is in units of 100 account units, equity in 1/Unit of that.   *)
(* Times are whole seconds since the epoch.                                *)
(***************************************************************************)
EXTENDS Integers, Sequences, FiniteSets, TLC

VARIABLES
    now,        \* the wall clock, time.time()
    pc,         \* the host loop's position in the tick
    tick,       \* number of ticks completed
    agent,      \* the AIAgent instance's attributes
    trader,     \* the host: flags, configuration, positions, capabilities
    state,      \* the snapshot of the current tick
    decision,   \* the Decision evaluate() returned, handed to apply()
    audit_log,  \* the records appended to the audit log file
    ev          \* history: what the calls of the tick saw
                \*   gate, built   where the last evaluate() ended, what it built
                \*   raised        whether the last evaluate() raised
                \*   latched       whether the last evaluate() set the
                \*                 drawdown-pause or the daily-pause latch
                \*   agent0        the agent before the last call
                \*   trader0       the host before the last call
                \*   log0          the audit log before the last evaluate()
                \*   fc_ts         when apply() last completed a force-close
                \*   eval_date     the UTC date of the last evaluate() call
                \*   prev_eval_date  the UTC date of the evaluate() call before it

vars == <<now, pc, tick, agent, trader, state, decision, audit_log, ev>>

-----------------------------------------------------------------------------
(* Representation of Python values *)

\* Python's None, and a value float() cannot convert
None == 0 - 1000000
Bad == None - 1
\* the fixed-point unit: 1.0 is Unit
Unit == 10 * 100

IsNum(x) == x # None /\ x # Bad
Max(a, b) == IF a >= b THEN a ELSE b
Min(a, b) == IF a <= b THEN a ELSE b

\* float(x or 0.0) for a value that is a number or None
OrZero(x) == IF x = None THEN 0 ELSE x

-----------------------------------------------------------------------------
(* Defaults of AIAgent.__init__ *)

DefaultMaxDrawdownPct == 120
DefaultMaxDailyLossPct == 60
DefaultMaxTradeLossPct == 30
DefaultMinIntervalSecs == 5
DefaultCooldownForceClose == 120
DefaultCooldownAdjust == 60
DefaultVolatilityThreshold == 80
DefaultLosingStreakWindow == 5
DefaultLosingStreakAdjustment == 200
DefaultVolatilityEnter == 80
VolatilityExitFactor == 750
DefaultDdPauseEnter == 120
DdPauseExitFactor == 800
DefaultVolEmaAlpha == 200
DefaultPnlEmaAlpha == 150
DefaultMaxActionsPerHour == 12
DefaultMaxAdjustsPerHour == 8
\* _ensure_budget_window's hour bucket, the UTC day, reduce_pct's floor, and
\* the number of closed trades the losing-streak check looks at
SecsPerHour == 3600
SecsPerDay == 86400
ReduceFloor == 100
RecentTrades == 10

\* an empty dict
EmptyMap == [k \in {} |-> 0]

\* dict.get(key, default) for an optional number
Get(x, default) == IF x = None THEN default ELSE x

\* last_dd_ratio = None: no drawdown ratio computed yet
NoRatio == [n |-> 0, d |-> 0]

\* The attributes rescue_cfg and _rescue_state are read by evaluate() and
\* apply() but __init__ assigns neither: reading them raises AttributeError.
HasRescueCfg == FALSE
HasRescueState == FALSE

\* The empty param_caps mapping: no bound configured
NoCaps ==
    [long  |-> [grid_spacing_pct |-> [min |-> None, max |-> None],
                pos_size_pct     |-> [min |-> None, max |-> None]],
     short |-> [grid_spacing_pct |-> [min |-> None, max |-> None],
                pos_size_pct     |-> [min |-> None, max |-> None]]]

\* The ai_agent section of a configuration that sets nothing
RawDefault ==
    [enabled |-> TRUE, dry_run |-> FALSE, kill_switch |-> FALSE,
     shadow_mode |-> FALSE,
     max_drawdown_pct |-> None, max_daily_loss_pct |-> None,
     max_trade_loss_pct |-> None, min_interval_secs |-> None,
     cooldown_secs_after_force_close |-> None,
     cooldown_secs_after_adjust |-> None,
     param_caps |-> NoCaps,
     volatility_threshold |-> None,
     losing_streak_window |-> None, losing_streak_adjustment |-> None,
     hysteresis |-> [volatility_enter |-> None, volatility_exit |-> None,
                     dd_pause_enter |-> None, dd_pause_exit |-> None],
     smoothing |-> [vol_ema_alpha |-> None, pnl_ema_alpha |-> None],
     budgets |-> [max_actions_per_hour |-> None, max_adjusts_per_hour |-> None],
     symbol_overrides |-> EmptyMap,
     halts |-> <<>>,
     gates |-> [max_spread_pct |-> None]]

\* AIAgent.__init__(config) at wall-clock time t; raw is config's ai_agent section
AIAgentInit(raw, config, t) ==
    [config |-> config,
     enabled |-> raw.enabled,
     cfg |-> [dry_run |-> raw.dry_run,
              max_drawdown_pct |-> Get(raw.max_drawdown_pct, DefaultMaxDrawdownPct),
              max_daily_loss_pct |-> Get(raw.max_daily_loss_pct, DefaultMaxDailyLossPct),
              max_trade_loss_pct |-> Get(raw.max_trade_loss_pct, DefaultMaxTradeLossPct),
              min_interval_secs |-> Get(raw.min_interval_secs, DefaultMinIntervalSecs),
              cooldown_secs_after_force_close |->
                  Get(raw.cooldown_secs_after_force_close, DefaultCooldownForceClose),
              cooldown_secs_after_adjust |->
                  Get(raw.cooldown_secs_after_adjust, DefaultCooldownAdjust),
              param_caps |-> raw.param_caps,
              volatility_threshold |->
                  Get(raw.volatility_threshold, DefaultVolatilityThreshold),
              losing_streak_window |->
                  Get(raw.losing_streak_window, DefaultLosingStreakWindow),
              losing_streak_adjustment |->
                  Get(raw.losing_streak_adjustment, DefaultLosingStreakAdjustment),
              kill_switch |-> raw.kill_switch],
     hysteresis |->
         [volatility_enter |-> Get(raw.hysteresis.volatility_enter, DefaultVolatilityEnter),
          volatility_exit |->
              Get(raw.hysteresis.volatility_exit,
                  Max(0, (VolatilityExitFactor
                          * Get(raw.hysteresis.volatility_enter, DefaultVolatilityEnter))
                         \div Unit)),
          dd_pause_enter |-> Get(raw.hysteresis.dd_pause_enter, DefaultDdPauseEnter),
          dd_pause_exit |->
              Get(raw.hysteresis.dd_pause_exit,
                  Max(0, (DdPauseExitFactor
                          * Get(raw.hysteresis.dd_pause_enter, DefaultDdPauseEnter))
                         \div Unit))],
     smoothing |-> [vol_ema_alpha |-> Get(raw.smoothing.vol_ema_alpha, DefaultVolEmaAlpha),
                    pnl_ema_alpha |-> Get(raw.smoothing.pnl_ema_alpha, DefaultPnlEmaAlpha)],
     budgets |-> [max_actions_per_hour |->
                      Get(raw.budgets.max_actions_per_hour, DefaultMaxActionsPerHour),
                  max_adjusts_per_hour |->
                      Get(raw.budgets.max_adjusts_per_hour, DefaultMaxAdjustsPerHour)],
     shadow_mode |-> raw.shadow_mode,
     symbol_overrides |-> raw.symbol_overrides,
     halts |-> raw.halts,
     gates |-> raw.gates,
     filters |-> [vol_ema |-> None, upnl_ema |-> None],
     blocking_due_to_vol |-> FALSE,
     paused_due_to_dd |-> FALSE,
     paused_due_to_daily |-> FALSE,
     last_dd_ratio |-> NoRatio,
     hour_window_start_ts |-> (t \div SecsPerHour) * SecsPerHour,
     actions_this_hour |-> 0,
     adjusts_this_hour |-> 0,
     per_symbol |-> EmptyMap,
     last_action_ts |-> 0,
     cooldown_until_ts |-> 0,
     session_peak_equity |-> 0,
     daily_pnl_tracker |-> 0,
     last_utc_date |-> None,
     losing_streak |-> 0,
     _rescue_state |-> EmptyMap]

-----------------------------------------------------------------------------
(* Smoothing filter *)

\* a filter that starts from 0 when there is no previous value
EmaFromZero(prev, value, alpha) ==
    IF value = None THEN prev
    ELSE IF value = Bad \/ prev = Bad THEN prev
    ELSE (alpha * value + (Unit - alpha) * OrZero(prev)) \div Unit

\* _ema(prev, value, alpha)
_ema(prev, value, alpha) ==
    IF value = None THEN prev
    ELSE IF value = Bad \/ prev = Bad THEN prev
    ELSE IF prev = None THEN value
    ELSE (alpha * value + (Unit - alpha) * prev) \div Unit

\* AIAgent.observe(state): the filters after the call
ObserveFilters(a, s) ==
    LET vol_raw == s.volatility
        vol_ema == IF vol_raw = Bad THEN a.filters.vol_ema
                   ELSE _ema(a.filters.vol_ema, vol_raw, a.smoothing.vol_ema_alpha)
        acc_upnl == s.account.unrealized_pnl_pct
        upnl_ema == IF acc_upnl = Bad THEN a.filters.upnl_ema
                    ELSE _ema(a.filters.upnl_ema, OrZero(acc_upnl),
                              a.smoothing.pnl_ema_alpha)
    IN  [vol_ema |-> vol_ema, upnl_ema |-> upnl_ema]

-----------------------------------------------------------------------------
(* Decisions *)

NoAdjust == EmptyMap
NoRescue == [engage |-> {}, release |-> {}]

\* decision = {}: no key present
EmptyDecision ==
    [pause_bot |-> "", block_entry |-> FALSE, force_close |-> FALSE,
     adjust |-> NoAdjust, rescue |-> NoRescue, info |-> "",
     _affected_symbol |-> ""]

\* the dotted parameter paths, as their components
LongSpacingPath == <<"long", "grid_spacing_pct">>
ShortSpacingPath == <<"short", "grid_spacing_pct">>
RescuePath(coin, side) == <<"coin_overrides", coin, "bot", side, "close_grid_qty_pct">>
ForcedModePath(coin, side) == <<"coin_overrides", coin, "live", "forced_mode_" \o side>>
GlobalForcedModePath(side) == <<"live", "forced_mode_" \o side>>

\* isinstance(decision.get("adjust"), dict)
HasAdjust(d) == d.adjust # NoAdjust
\* bool(decision.get("rescue"))
HasRescue(d) == d.rescue # NoRescue

\* pure_funcs.symbol_to_coin: the coin of a market symbol
symbol_to_coin(sym) ==
    CASE sym = "BTCUSDT" -> "BTC"
      [] sym = "ETHUSDT" -> "ETH"
      [] OTHER -> sym

-----------------------------------------------------------------------------
(* evaluate(): the gates *)

\* datetime.fromtimestamp(now, tz=utc): weekday (Monday = 0), second of the day
Weekday(t) == ((t \div SecsPerDay) + 3) % 7
SecondOfDay(t) == t % SecsPerDay

\* one daily halt window {start_utc: <<h, m>>, end_utc: <<h, m>>, weekdays}
InDailyWindow(h, t) ==
    /\ h.start_utc # <<>> /\ h.end_utc # <<>>
    /\ (h.weekdays # {} => Weekday(t) \in h.weekdays)
    /\ h.start_utc[1] \in 0..23 /\ h.start_utc[2] \in 0..59
    /\ h.end_utc[1] \in 0..23 /\ h.end_utc[2] \in 0..59
    /\ LET start_t == (h.start_utc[1] * 60 + h.start_utc[2]) * 60
           end_t == (h.end_utc[1] * 60 + h.end_utc[2]) * 60
           tnow == SecondOfDay(t)
       IN  IF start_t <= end_t
           THEN start_t <= tnow /\ tnow < end_t
           ELSE tnow >= start_t \/ tnow < end_t

\* AIAgent._is_in_halt(now_epoch)
_is_in_halt(a, t) ==
    \/ \E i \in DOMAIN a.halts :
          /\ a.halts[i].start_ts # None /\ a.halts[i].end_ts # None
          /\ a.halts[i].start_ts <= t /\ t < a.halts[i].end_ts
    \/ \E i \in DOMAIN a.halts : InDailyWindow(a.halts[i], t)

\* the spread gate: state["spread_pct"], else state["market"]["spread_pct"]
SpreadOf(s) == IF s.spread_pct # None THEN s.spread_pct ELSE s.market_spread_pct

SpreadGate(a, s) ==
    /\ a.gates.max_spread_pct # None
    /\ IsNum(SpreadOf(s))
    /\ a.gates.max_spread_pct # Bad
    /\ SpreadOf(s) > a.gates.max_spread_pct

\* the soft gates: halt windows and spread gate set block_entry
SoftGates(d, a, s, t) ==
    IF _is_in_halt(a, t) \/ SpreadGate(a, s)
    THEN [d EXCEPT !.block_entry = TRUE]
    ELSE d

\* a cooldown gate that yields to the min-interval gate
InCooldownAfterInterval(a, t) ==
    /\ a.cooldown_until_ts # 0 /\ t < a.cooldown_until_ts
    /\ ~(t - a.last_action_ts < a.cfg.min_interval_secs)

\* the cooldown gate
InCooldown(a, t) == a.cooldown_until_ts # 0 /\ t < a.cooldown_until_ts

\* a minimum-interval gate half as long as configured
InMinIntervalHalved(a, t) == t - a.last_action_ts < a.cfg.min_interval_secs \div 2

\* the minimum-interval gate
InMinInterval(a, t) == t - a.last_action_ts < a.cfg.min_interval_secs

-----------------------------------------------------------------------------
(* evaluate(): the checks.  Each takes and returns x = [d: the Decision,   *)
(* a: the agent]; an exception inside a try block leaves the block.        *)

\* account-level per-trade stop
AccountForceClose(x, s) ==
    LET u == s.account.unrealized_pnl_pct
    IN  IF u # Bad /\ OrZero(u) < 0 - x.a.cfg.max_trade_loss_pct
        THEN [x EXCEPT !.d.force_close = TRUE]
        ELSE x

\* the volatility latch after the hysteresis check, given vol_ema
\* a latch without a band: it follows the enter threshold alone
VolLatchNoBand(blocking, vol_ema, hyst) == vol_ema >= hyst.volatility_enter

\* a latch that is set at the enter threshold and never cleared
VolLatchNeverClears(blocking, vol_ema, hyst) ==
    IF vol_ema >= hyst.volatility_enter THEN TRUE ELSE blocking

VolLatch(blocking, vol_ema, hyst) ==
    IF ~blocking /\ vol_ema >= hyst.volatility_enter THEN TRUE
    ELSE IF blocking /\ vol_ema <= hyst.volatility_exit THEN FALSE
    ELSE blocking

\* volatility hysteresis, with the raw-threshold fallback when no EMA exists
VolatilityCheck(x, s) ==
    LET vol_ema == x.a.filters.vol_ema
        raised == vol_ema = None /\ s.volatility = Bad
        blocking ==
            IF vol_ema # None
            THEN VolLatch(x.a.blocking_due_to_vol, vol_ema, x.a.hysteresis)
            ELSE IF IsNum(s.volatility) /\ s.volatility > x.a.cfg.volatility_threshold
            THEN TRUE
            ELSE x.a.blocking_due_to_vol
    IN  [x EXCEPT !.a.blocking_due_to_vol = blocking,
                  !.d.block_entry = IF blocking /\ ~raised THEN TRUE ELSE @]

\* equity = balance * (1 + unrealized_pnl_pct), in 1/Unit of a balance unit
Equity(s) ==
    LET balance == OrZero(s.account.balance)
        u == s.account.unrealized_pnl_pct
    IN  IF u = Bad THEN balance * Unit ELSE balance * (Unit + OrZero(u))

\* a peak that follows the equity down as well as up
LastEquity(equity, peak) == equity

\* session_peak_equity after the tick's equity is known
HighWater(equity, peak) == IF equity > peak THEN equity ELSE peak

\* a drawdown measured against the equity instead of the peak
DdRatioOverEquity(equity, peak) == [n |-> Max(0, peak - equity), d |-> equity]

\* the drawdown ratio max(0, -(equity / peak - 1)) as the fraction n / d
DdRatio(equity, peak) == [n |-> Max(0, peak - equity), d |-> peak]
RatioGT(r, thr) == r.n * Unit > thr * r.d
RatioGE(r, thr) == r.n * Unit >= thr * r.d
RatioLE(r, thr) == r.n * Unit <= thr * r.d

\* a drawdown check whose absolute cap is an elif of the latch: the cap is
\* looked at only on ticks where the latch does not move
DrawdownCheckCapLast(x, s) ==
    IF s.account.balance = Bad THEN x
    ELSE
    LET equity == Equity(s)
        peak == HighWater(equity, x.a.session_peak_equity)
        dd_ratio == DdRatio(equity, peak)
        enter == ~x.a.paused_due_to_dd /\ RatioGE(dd_ratio, x.a.hysteresis.dd_pause_enter)
        exit == x.a.paused_due_to_dd /\ RatioLE(dd_ratio, x.a.hysteresis.dd_pause_exit)
        x1 == [x EXCEPT !.a.session_peak_equity = peak]
    IN  IF peak <= 0 THEN x1
        ELSE [x1 EXCEPT
                !.a.last_dd_ratio = dd_ratio,
                !.a.paused_due_to_dd = IF enter THEN TRUE ELSE IF exit THEN FALSE ELSE @,
                !.d.pause_bot =
                    IF enter THEN "session_dd"
                    ELSE IF RatioGE(dd_ratio, x.a.cfg.max_drawdown_pct) THEN "max_drawdown"
                    ELSE @]

\* session drawdown: peak tracking, hysteresis latch, absolute cap
DrawdownCheck(x, s) ==
    IF s.account.balance = Bad THEN x
    ELSE
    LET equity == Equity(s)
        peak == HighWater(equity, x.a.session_peak_equity)
        dd_ratio == DdRatio(equity, peak)
        enter == ~x.a.paused_due_to_dd /\ RatioGE(dd_ratio, x.a.hysteresis.dd_pause_enter)
        exit == x.a.paused_due_to_dd /\ RatioLE(dd_ratio, x.a.hysteresis.dd_pause_exit)
        x1 == [x EXCEPT !.a.session_peak_equity = peak]
    IN  IF peak <= 0 THEN x1
        ELSE [x1 EXCEPT
                !.a.last_dd_ratio = dd_ratio,
                !.a.paused_due_to_dd = IF enter THEN TRUE ELSE IF exit THEN FALSE ELSE @,
                !.d.pause_bot =
                    IF RatioGE(dd_ratio, x.a.cfg.max_drawdown_pct) THEN "max_drawdown"
                    ELSE IF enter THEN "session_dd"
                    ELSE @]

\* datetime.now(timezone.utc).date(), as the day number
UtcDate(t) == t \div SecsPerDay

\* a daily-loss check that fires whatever the latch says
DailyLossNoLatch(x, s, t) ==
    LET reset == x.a.last_utc_date = None \/ UtcDate(t) # x.a.last_utc_date
        x1 == IF reset
              THEN [x EXCEPT !.a.last_utc_date = UtcDate(t),
                             !.a.daily_pnl_tracker = 0,
                             !.a.paused_due_to_daily = FALSE]
              ELSE x
        r == s.account.realized_pnl_pct_today
    IN  IF IsNum(r) /\ r <= 0 - x1.a.cfg.max_daily_loss_pct
        THEN [x1 EXCEPT !.d.pause_bot = "daily_loss", !.a.paused_due_to_daily = TRUE]
        ELSE x1

\* a daily-loss check that resets on every call
DailyLossResetAlways(x, s, t) ==
    LET x1 == [x EXCEPT !.a.last_utc_date = UtcDate(t),
                        !.a.daily_pnl_tracker = 0,
                        !.a.paused_due_to_daily = FALSE]
        r == s.account.realized_pnl_pct_today
    IN  IF IsNum(r) /\ ~x1.a.paused_due_to_daily /\ r <= 0 - x1.a.cfg.max_daily_loss_pct
        THEN [x1 EXCEPT !.d.pause_bot = "daily_loss", !.a.paused_due_to_daily = TRUE]
        ELSE x1

\* daily loss: tracker reset at the UTC date change, daily-loss latch
DailyLossCheck(x, s, t) ==
    LET reset == x.a.last_utc_date = None \/ UtcDate(t) # x.a.last_utc_date
        x1 == IF reset
              THEN [x EXCEPT !.a.last_utc_date = UtcDate(t),
                             !.a.daily_pnl_tracker = 0,
                             !.a.paused_due_to_daily = FALSE]
              ELSE x
        r == s.account.realized_pnl_pct_today
    IN  IF IsNum(r) /\ ~x1.a.paused_due_to_daily /\ r <= 0 - x1.a.cfg.max_daily_loss_pct
        THEN [x1 EXCEPT !.d.pause_bot = "daily_loss", !.a.paused_due_to_daily = TRUE]
        ELSE x1

\* per-position hard stop: the loop ends at the first position that triggers
\* or whose upnl_pct cannot be converted
PositionForceClose(x, s) ==
    LET ps == s.open_positions
        Trig(i) == ps[i].upnl_pct # Bad
                   /\ OrZero(ps[i].upnl_pct) <= 0 - x.a.cfg.max_trade_loss_pct
    IN  IF \E i \in DOMAIN ps : Trig(i) /\ \A j \in 1..(i - 1) : ps[j].upnl_pct # Bad
        THEN [x EXCEPT !.d.force_close = TRUE]
        ELSE x

-----------------------------------------------------------------------------
(* evaluate(): losing-streak grid adjustment *)

\* closed_trades[-10:]
LastTrades(ct) == SubSeq(ct, Max(1, Len(ct) - RecentTrades + 1), Len(ct))

\* ct.get("symbol") or "multi"
TradeSymbol(tr) == IF tr.symbol = "" THEN "multi" ELSE tr.symbol

\* by_symbol[sym]: the symbol's trades among the recent ones, oldest first
TradesOf(ct, sym) == SelectSeq(LastTrades(ct), LAMBDA tr : TradeSymbol(tr) = sym)

\* trades[-window:] if len(trades) >= window else []
LastN(trades, window) ==
    IF Len(trades) < window THEN <<>>
    ELSE IF window > 0 THEN SubSeq(trades, Len(trades) - window + 1, Len(trades))
    ELSE SubSeq(trades, 1 - window, Len(trades))

\* lastn and all(pnl_pct < 0 for ct in lastn)
IsLosingStreak(ct, sym, window) ==
    LET lastn == LastN(TradesOf(ct, sym), window)
    IN  /\ lastn # <<>>
        /\ \A i \in DOMAIN lastn : OrZero(lastn[i].pnl_pct) < 0

\* the symbol with a losing streak that appears last; "" if none
AffectedSymbolLast(ct, window) ==
    LET recent == LastTrades(ct)
        hits == {i \in DOMAIN recent : IsLosingStreak(ct, TradeSymbol(recent[i]), window)}
    IN  IF hits = {} THEN ""
        ELSE TradeSymbol(recent[CHOOSE i \in hits : \A j \in hits : i >= j])

\* the first symbol, in order of first appearance, with a losing streak; "" if none
AffectedSymbol(ct, window) ==
    LET recent == LastTrades(ct)
        hits == {i \in DOMAIN recent : IsLosingStreak(ct, TradeSymbol(recent[i]), window)}
    IN  IF hits = {} THEN ""
        ELSE TradeSymbol(recent[CHOOSE i \in hits : \A j \in hits : i <= j])

\* reduce_pct(x): None when x is None
reduce_pct(x, reduction) ==
    IF ~IsNum(x) THEN None
    ELSE Max(ReduceFloor, (x * (Unit - reduction)) \div Unit)

\* a clamp that knows the upper bound only
ClampMaxOnly(value, bounds) == Min(Get(bounds.max, value), value)

\* max(vmin, min(vmax, value)) with absent bounds defaulting to the value
Clamp(value, bounds) ==
    Max(Get(bounds.min, value), Min(Get(bounds.max, value), value))

\* the current grid spacing of a side: live_config first, else the configuration
CurrentSpacing(a, s, side) ==
    IF s.live_config[side] # None THEN s.live_config[side]
    ELSE a.config.bot[side].entry_grid_spacing_pct

\* the proposed spacing of a side for the affected symbol
NewSpacing(a, s, side, sym) ==
    LET nv == reduce_pct(CurrentSpacing(a, s, side), a.cfg.losing_streak_adjustment)
    IN  IF nv # None /\ sym \in DOMAIN a.symbol_overrides
        THEN Clamp(nv, a.symbol_overrides[sym].param_caps[side].grid_spacing_pct)
        ELSE nv

LosingStreakCheck(x, s) ==
    LET window == x.a.cfg.losing_streak_window
        sym == AffectedSymbol(s.closed_trades, window)
        lastn == LastN(TradesOf(s.closed_trades, sym), window)
        prev == IF sym \in DOMAIN x.a.per_symbol THEN x.a.per_symbol[sym]
                ELSE [losing_streak |-> 0, last_adjust_ts |-> 0]
        new_long == NewSpacing(x.a, s, "long", sym)
        new_short == NewSpacing(x.a, s, "short", sym)
        adjust == (IF new_long # None THEN LongSpacingPath :> new_long ELSE NoAdjust)
                  @@ (IF new_short # None THEN ShortSpacingPath :> new_short ELSE NoAdjust)
    IN  IF sym = "" THEN x
        ELSE [x EXCEPT
                !.a.per_symbol = (sym :> [prev EXCEPT !.losing_streak = Len(lastn)]) @@ @,
                !.d.adjust = IF adjust # NoAdjust THEN adjust ELSE @,
                !.d._affected_symbol = IF adjust # NoAdjust THEN sym ELSE @]

-----------------------------------------------------------------------------
(* evaluate(): rescue mode *)

\* The rescue thresholds rescue_cfg would hold; no code assigns the attribute.
rescue_cfg ==
    [trigger_loss_pct |-> 80, release_loss_pct |-> 20, max_vol_mult |-> 2 * Unit,
     targets |-> [close_grid_qty_pct |-> 500]]

\* open_pos_map: the last listed position of each (coin, side)
OpenPosKeys(s) ==
    {<<symbol_to_coin(s.open_positions[i].symbol), s.open_positions[i].position_side>> :
        i \in {j \in DOMAIN s.open_positions :
                 /\ s.open_positions[j].upnl_pct # Bad
                 /\ s.open_positions[j].size # Bad
                 /\ symbol_to_coin(s.open_positions[j].symbol) # ""
                 /\ s.open_positions[j].position_side # ""}}

OpenPos(s, key) ==
    LET idx == {j \in DOMAIN s.open_positions :
                  /\ s.open_positions[j].upnl_pct # Bad
                  /\ s.open_positions[j].size # Bad
                  /\ <<symbol_to_coin(s.open_positions[j].symbol),
                       s.open_positions[j].position_side>> = key}
        last == CHOOSE j \in idx : \A k \in idx : k <= j
    IN  [upnl |-> OrZero(s.open_positions[last].upnl_pct),
         size |-> OrZero(s.open_positions[last].size)]

\* the rescue block as written, for an agent that has both attributes
RescueBlock(x, s) ==
    LET vema == x.a.filters.vol_ema
        vol_ok == IF vema = None THEN TRUE
                  ELSE /\ ~x.a.blocking_due_to_vol
                       /\ vema * Unit
                            <= x.a.hysteresis.volatility_exit * rescue_cfg.max_vol_mult
        engage == IF ~vol_ok THEN {}
                  ELSE {k \in OpenPosKeys(s) :
                          /\ OpenPos(s, k).size # 0
                          /\ OpenPos(s, k).upnl <= 0 - rescue_cfg.trigger_loss_pct
                          /\ k \notin DOMAIN x.a._rescue_state}
        release == {k \in DOMAIN x.a._rescue_state :
                      \/ k \notin OpenPosKeys(s)
                      \/ OpenPos(s, k).size = 0
                      \/ OpenPos(s, k).upnl >= 0 - rescue_cfg.release_loss_pct}
        restored == {k \in release : x.a._rescue_state[k].baseline # None}
        adjust2 == [p \in {RescuePath(k[1], k[2]) : k \in engage \cup restored} |->
                      LET k == CHOOSE k \in engage \cup restored :
                                   RescuePath(k[1], k[2]) = p
                      IN  IF k \in restored THEN x.a._rescue_state[k].baseline
                          ELSE rescue_cfg.targets.close_grid_qty_pct]
    IN  IF engage = {} /\ release = {} THEN x
        ELSE [x EXCEPT !.d.rescue = [engage |-> engage, release |-> release],
                       !.d.adjust = adjust2 @@ @]

\* the rescue block of the agent __init__ builds: the first read of a missing
\* attribute raises AttributeError, which the surrounding try swallows
RescueCheck(x, s) ==
    IF HasRescueCfg /\ HasRescueState THEN RescueBlock(x, s) ELSE x

-----------------------------------------------------------------------------
(* evaluate(): audit record and action budgets *)

\* _mode_label
ModeLabel(a) == IF a.shadow_mode THEN "shadow" ELSE IF a.cfg.dry_run THEN "dry-run" ELSE "live"

\* the audit payload of a Decision
AuditPayload(d, a, s, t) ==
    [ts |-> t,
     symbol |-> IF d._affected_symbol # "" THEN d._affected_symbol ELSE "multi",
     equity |-> OrZero(s.account.balance),
     unrealized_pnl_pct |-> OrZero(s.account.unrealized_pnl_pct),
     volatility |-> s.volatility,
     losing_streak |-> a.losing_streak,
     decision |-> d,
     mode |-> ModeLabel(a),
     filters |-> a.filters]

\* the audit log after the audit step: a record is appended for a non-empty
\* Decision unless building the payload or the write raises
AuditAppend(log, d, a, s, t) ==
    IF /\ d # EmptyDecision
       /\ s.account.balance # Bad /\ s.account.unrealized_pnl_pct # Bad
       /\ s.io_ok
    THEN Append(log, AuditPayload(d, a, s, t))
    ELSE log

\* a window that moves to the new hour bucket and keeps its counters
MoveWindowOnly(a, t) ==
    [a EXCEPT !.hour_window_start_ts = (t \div SecsPerHour) * SecsPerHour]

\* AIAgent._ensure_budget_window()
_ensure_budget_window(a, t) ==
    LET hour_start == (t \div SecsPerHour) * SecsPerHour
    IN  IF hour_start # a.hour_window_start_ts
        THEN [a EXCEPT !.hour_window_start_ts = hour_start,
                       !.actions_this_hour = 0,
                       !.adjusts_this_hour = 0]
        ELSE a

WouldAdjust(d) == HasAdjust(d) \/ HasRescue(d)
WouldAct(d) == d.pause_bot # "" \/ d.block_entry \/ d.force_close \/ WouldAdjust(d)

\* caps compared without counting the action about to be taken
ActionCapPassed(a) == a.actions_this_hour > a.budgets.max_actions_per_hour
AdjustCapPassed(a) == a.adjusts_this_hour > a.budgets.max_adjusts_per_hour

\* the action cap and the adjust cap are reached
ActionCapHit(a) == a.actions_this_hour + 1 > a.budgets.max_actions_per_hour
AdjustCapHit(a) == a.adjusts_this_hour + 1 > a.budgets.max_adjusts_per_hour

\* a limiter that makes no exception for shadow mode
BudgetLimitAlways(d, a) ==
    IF ~WouldAct(d) THEN d
    ELSE IF ActionCapHit(a) THEN [EmptyDecision EXCEPT !.info = "budget_action_limit"]
    ELSE IF WouldAdjust(d) /\ AdjustCapHit(a)
    THEN [d EXCEPT !.adjust = NoAdjust, !.info = "budget_adjust_limit"]
    ELSE d

\* the Decision returned after budget limiting; a is the agent after
\* _ensure_budget_window
BudgetLimit(d, a) ==
    IF a.shadow_mode \/ ~WouldAct(d) THEN d
    ELSE IF ActionCapHit(a) THEN [EmptyDecision EXCEPT !.info = "budget_action_limit"]
    ELSE IF WouldAdjust(d) /\ AdjustCapHit(a)
    THEN [d EXCEPT !.adjust = NoAdjust, !.info = "budget_adjust_limit"]
    ELSE d

-----------------------------------------------------------------------------
(* evaluate() *)

\* the blocks of evaluate(), in the order the code runs them
Blocks ==
    {"kill_switch", "soft_gates", "cooldown", "min_interval", "account_stop",
     "volatility", "drawdown", "daily_loss", "position_stop", "losing_streak",
     "rescue", "audit", "budget"}

\* every block but the rescue block inside try / except Exception
GuardedButRescue(b) == b \in Blocks \ {"rescue"}

\* every block but the audit block inside try / except Exception
GuardedButAudit(b) == b \in Blocks \ {"audit"}

\* block b is the body of a try / except Exception: pass statement
Guarded(b) == b \in Blocks

\* the blocks in which a statement raises once the gates are passed: a is the
\* agent the checks start from, built the Decision they build
RaisingBlocks(a, s, built) ==
    LET ps == s.open_positions
        Trig(i) == ps[i].upnl_pct # Bad
                   /\ OrZero(ps[i].upnl_pct) <= 0 - a.cfg.max_trade_loss_pct
    IN  {b \in Blocks :
           \/ b = "account_stop" /\ s.account.unrealized_pnl_pct = Bad
           \/ b = "volatility" /\ a.filters.vol_ema = None /\ s.volatility = Bad
           \/ b = "drawdown" /\ s.account.balance = Bad
           \/ b = "position_stop"
                /\ \E i \in DOMAIN ps :
                      ps[i].upnl_pct = Bad /\ \A j \in 1..(i - 1) : ~Trig(j)
           \/ b = "rescue" /\ ~HasRescueState
           \/ b = "audit"
                /\ built # EmptyDecision
                /\ \/ s.account.balance = Bad
                   \/ s.account.unrealized_pnl_pct = Bad
                   \/ ~s.io_ok}

\* the checks evaluate() runs once the gates are passed, in order
Checks(d, a, s, t) ==
    LET x0 == [d |-> d, a |-> a]
        x1 == AccountForceClose(x0, s)
        x2 == VolatilityCheck(x1, s)
        x3 == DrawdownCheck(x2, s)
        x4 == DailyLossCheck(x3, s, t)
        x5 == PositionForceClose(x4, s)
        x6 == LosingStreakCheck(x5, s)
    IN  RescueCheck(x6, s)

\* a kill switch honoured only while the action budget lasts
KillSwitchWithinBudget(a) == a.cfg.kill_switch /\ ~ActionCapHit(a)

\* the pre-check gate: self.cfg.get("kill_switch")
KillSwitch(a) == a.cfg.kill_switch

\* AIAgent.evaluate(state) at time t with the audit log `log`:
\*   d     the Decision returned
\*   a     the agent afterwards
\*   log   the audit log afterwards
\*   gate  where the call ended: "disabled", "kill_switch", "cooldown",
\*         "min_interval" or "checks"
\*   built the Decision the checks built, before budget limiting
\*   raised an exception left a block that no try statement encloses: the
\*         call returns no Decision
Evaluated(a, s, t, log) ==
    LET gated == SoftGates(EmptyDecision, a, s, t)
        x == Checks(gated, a, s, t)
        a2 == _ensure_budget_window(x.a, t)
        raised == \E b \in RaisingBlocks(a, s, x.d) : ~Guarded(b)
        stop(gate, d) == [d |-> d, a |-> a, log |-> log, gate |-> gate,
                          built |-> EmptyDecision, raised |-> FALSE]
    IN  IF ~a.enabled THEN stop("disabled", EmptyDecision)
        ELSE IF KillSwitch(a)
        THEN stop("kill_switch", [EmptyDecision EXCEPT !.pause_bot = "kill_switch"])
        ELSE IF InCooldown(a, t)
        THEN stop("cooldown", [EmptyDecision EXCEPT !.info = "cooldown"])
        ELSE IF InMinInterval(a, t) THEN stop("min_interval", EmptyDecision)
        ELSE [d |-> IF raised THEN EmptyDecision ELSE BudgetLimit(x.d, a2),
              a |-> IF raised THEN x.a ELSE a2,
              log |-> AuditAppend(log, x.d, x.a, s, t),
              gate |-> "checks",
              built |-> x.d,
              raised |-> raised]

-----------------------------------------------------------------------------
(* The host.  trader is                                                    *)
(*   paused, skip_entry   the flags apply() sets with setattr              *)
(*   config               bot / live / coin_overrides configuration        *)
(*   positions            symbol -> side -> size                           *)
(*   has_close_all        whether close_all_positions exists               *)
(*   close_calls          how often close_all_positions was invoked        *)
(*   strategy             the strategy object handed to apply()            *)
(*   shared               whether the agent's config is this same dict     *)

Sides == {"long", "short"}

\* safe_set_param(strategy, trader, path, value): the host afterwards.
\* with_strategy: the caller passed the strategy object rather than None.
safe_set_param(a, tr, with_strategy, path, value) ==
    LET side == path[1]
        param == Tail(path)
        capped == IF /\ side \in Sides /\ Len(param) = 1
                     /\ param[1] \in {"grid_spacing_pct", "pos_size_pct"}
                     /\ IsNum(value)
                  THEN Clamp(value, a.cfg.param_caps[side][param[1]])
                  ELSE value
        on_strategy == /\ with_strategy /\ tr.strategy.present
                       /\ side \in Sides /\ Len(param) = 1
                       /\ param[1] \in DOMAIN tr.strategy[side]
    IN  IF a.cfg.dry_run THEN tr
        ELSE IF on_strategy THEN [tr EXCEPT !.strategy[side][param[1]] = capped]
        ELSE IF side \in Sides
        THEN IF param = <<"grid_spacing_pct">>
             THEN [tr EXCEPT !.config.bot[side].entry_grid_spacing_pct = capped]
             ELSE IF param = <<"pos_size_pct">>
             THEN [tr EXCEPT !.config.bot[side].entry_initial_qty_pct = capped]
             ELSE tr
        ELSE IF side = "live" /\ Len(param) = 1 /\ param[1] \in DOMAIN tr.config.live
        THEN [tr EXCEPT !.config.live[param[1]] = capped]
        ELSE IF side = "coin_overrides" /\ Len(param) = 3
                /\ param[1] \in DOMAIN tr.config.coin_overrides
        THEN [tr EXCEPT !.config.coin_overrides[param[1]][param[2]][param[3]] = capped]
        ELSE IF side = "coin_overrides" /\ Len(param) = 4
                /\ param[1] \in DOMAIN tr.config.coin_overrides
        THEN [tr EXCEPT
                !.config.coin_overrides[param[1]][param[2]][param[3]][param[4]] = capped]
        ELSE tr

\* safe_set_param for every item of an adjust mapping, in any order (the
\* paths of one mapping are distinct, so the writes commute)
RECURSIVE ApplyAdjust(_, _, _, _)
ApplyAdjust(a, tr, adjust, todo) ==
    IF todo = {} THEN tr
    ELSE LET p == CHOOSE p \in todo : TRUE
         IN  ApplyAdjust(a, safe_set_param(a, tr, TRUE, p, adjust[p]), adjust, todo \ {p})

\* every (symbol, side) pair of the host's positions, flat ones included
HeldSides(tr) == (DOMAIN tr.positions) \X Sides

\* the (symbol, side) pairs of the host's positions with non-zero size
OpenSides(tr) ==
    {<<sym, side>> \in (DOMAIN tr.positions) \X Sides : tr.positions[sym][side].size # 0}

\* force-close fallback of a host without close_all_positions: graceful_stop
\* per open coin/side, or on both global sides when nothing is open
RECURSIVE GracefulStopEach(_, _, _)
GracefulStopEach(a, tr, todo) ==
    IF todo = {} THEN tr
    ELSE LET k == CHOOSE k \in todo : TRUE
         IN  GracefulStopEach(
                 a,
                 safe_set_param(a, tr, FALSE,
                                ForcedModePath(symbol_to_coin(k[1]), k[2]),
                                "graceful_stop"),
                 todo \ {k})

ForceCloseFallback(a, tr) ==
    IF OpenSides(tr) # {} THEN GracefulStopEach(a, tr, OpenSides(tr))
    ELSE safe_set_param(a,
             safe_set_param(a, tr, FALSE, GlobalForcedModePath("long"), "graceful_stop"),
             FALSE, GlobalForcedModePath("short"), "graceful_stop")

\* apply(): each step takes and returns y = [a: agent, tr: host, acted]
ApplyPause(y, d) ==
    IF d.pause_bot = "" THEN y
    ELSE IF y.a.shadow_mode THEN [y EXCEPT !.acted = TRUE]
    ELSE [y EXCEPT !.tr.paused = TRUE, !.tr.skip_entry = TRUE, !.acted = TRUE]

ApplyBlock(y, d) ==
    IF ~d.block_entry THEN y
    ELSE IF y.a.shadow_mode THEN [y EXCEPT !.acted = TRUE]
    ELSE [y EXCEPT !.tr.skip_entry = TRUE, !.acted = TRUE]

\* a force-close step that schedules its cooldown although the host's
\* close_all_positions raised
ApplyForceCloseCoolsAnyway(y, d, t, close_ok) ==
    IF ~d.force_close THEN y
    ELSE IF y.a.shadow_mode THEN [y EXCEPT !.acted = TRUE]
    ELSE
    LET cooled == [y EXCEPT !.acted = TRUE,
                            !.a.cooldown_until_ts =
                                t + y.a.cfg.cooldown_secs_after_force_close]
    IN  IF y.a.cfg.dry_run THEN cooled
        ELSE IF y.tr.has_close_all
        THEN IF close_ok
             THEN [cooled EXCEPT !.tr.close_calls = @ + 1,
                                 !.tr.paused = TRUE, !.tr.skip_entry = TRUE]
             ELSE [cooled EXCEPT !.tr.close_calls = @ + 1]
        ELSE [cooled EXCEPT !.tr = ForceCloseFallback(y.a, y.tr)]

\* close_ok: whether the host's close_all_positions call returns (or raises)
ApplyForceClose(y, d, t, close_ok) ==
    IF ~d.force_close THEN y
    ELSE IF y.a.shadow_mode THEN [y EXCEPT !.acted = TRUE]
    ELSE
    LET cooled == [y EXCEPT !.acted = TRUE,
                            !.a.cooldown_until_ts =
                                t + y.a.cfg.cooldown_secs_after_force_close]
    IN  IF y.a.cfg.dry_run THEN cooled
        ELSE IF y.tr.has_close_all
        THEN IF close_ok
             THEN [cooled EXCEPT !.tr.close_calls = @ + 1,
                                 !.tr.paused = TRUE, !.tr.skip_entry = TRUE]
             ELSE [y EXCEPT !.tr.close_calls = @ + 1]
        ELSE [cooled EXCEPT !.tr = ForceCloseFallback(y.a, y.tr)]

ApplyAdjustStep(y, d, t) ==
    IF ~HasAdjust(d) THEN y
    ELSE IF y.a.shadow_mode THEN [y EXCEPT !.acted = TRUE]
    ELSE [y EXCEPT !.tr = ApplyAdjust(y.a, y.tr, d.adjust, DOMAIN d.adjust),
                   !.acted = TRUE,
                   !.a.cooldown_until_ts = t + y.a.cfg.cooldown_secs_after_adjust]

\* a count of one per action field of the Decision instead of one per call
CountPerField(y, d, t) ==
    IF ~y.acted THEN y
    ELSE IF y.a.shadow_mode THEN [y EXCEPT !.a.last_action_ts = t]
    ELSE LET a1 == _ensure_budget_window([y.a EXCEPT !.last_action_ts = t], t)
             fields == (IF d.pause_bot # "" THEN 1 ELSE 0)
                       + (IF d.block_entry THEN 1 ELSE 0)
                       + (IF d.force_close THEN 1 ELSE 0)
                       + (IF HasAdjust(d) THEN 1 ELSE 0)
         IN  [y EXCEPT !.a = [a1 EXCEPT !.actions_this_hour = @ + fields,
                                        !.adjusts_this_hour =
                                            IF HasAdjust(d) THEN @ + 1 ELSE @]]

\* budget counters and last_action_ts of a realized action
CountAction(y, d, t) ==
    IF ~y.acted THEN y
    ELSE IF y.a.shadow_mode THEN [y EXCEPT !.a.last_action_ts = t]
    ELSE LET a1 == _ensure_budget_window([y.a EXCEPT !.last_action_ts = t], t)
         IN  [y EXCEPT !.a = [a1 EXCEPT !.actions_this_hour = @ + 1,
                                        !.adjusts_this_hour =
                                            IF HasAdjust(d) THEN @ + 1 ELSE @]]

\* the baseline apply() records on engage: the coin override if any, else the
\* side's configured value, as the host's configuration reads at that point
Baseline(tr, coin, side) ==
    LET ov == IF coin \in DOMAIN tr.config.coin_overrides
              THEN tr.config.coin_overrides[coin].bot[side].close_grid_qty_pct
              ELSE None
    IN  IF ov # None THEN ov ELSE tr.config.bot[side].close_grid_qty_pct

\* rescue bookkeeping as written, for an agent that has _rescue_state
RescueBookkeeping(y, d) ==
    LET fresh == {k \in d.rescue.engage : k \notin DOMAIN y.a._rescue_state}
        kept == (DOMAIN y.a._rescue_state \cup fresh) \ d.rescue.release
    IN  [y EXCEPT !.a._rescue_state =
            [k \in kept |->
                IF k \in fresh THEN [baseline |-> Baseline(y.tr, k[1], k[2])]
                ELSE y.a._rescue_state[k]]]

ApplyRescue(y, d) ==
    IF y.acted /\ HasRescue(d) /\ HasRescueState THEN RescueBookkeeping(y, d) ELSE y

\* AIAgent.apply(decision, strategy, trader) at time t
Applied(a, tr, d, t, close_ok) ==
    LET y0 == [a |-> a, tr |-> tr, acted |-> FALSE]
        y1 == ApplyPause(y0, d)
        y2 == ApplyBlock(y1, d)
        y3 == ApplyForceClose(y2, d, t, close_ok)
        y4 == ApplyAdjustStep(y3, d, t)
        y5 == CountAction(y4, d, t)
    IN  ApplyRescue(y5, d)

-----------------------------------------------------------------------------
(* maybe_resume() *)

\* clear the global forced modes the agent's own configuration shows as set
ClearGlobalForced(a, tr) ==
    LET live_cfg == a.config.live
        t1 == IF live_cfg.forced_mode_long \in {"panic", "graceful_stop"}
              THEN safe_set_param(a, tr, FALSE, GlobalForcedModePath("long"), "")
              ELSE tr
    IN  IF live_cfg.forced_mode_short \in {"panic", "graceful_stop"}
        THEN safe_set_param(a, t1, FALSE, GlobalForcedModePath("short"), "")
        ELSE t1

\* clear per-coin graceful_stop overrides whose position is closed
ClearCoinForced(tr) ==
    LET open(side) == {symbol_to_coin(k[1]) : k \in {o \in OpenSides(tr) : o[2] = side}}
        cleared(coin, side) ==
            IF /\ tr.config.coin_overrides[coin].live["forced_mode_" \o side]
                    = "graceful_stop"
               /\ coin \notin open(side)
            THEN ""
            ELSE tr.config.coin_overrides[coin].live["forced_mode_" \o side]
    IN  [tr EXCEPT !.config.coin_overrides =
            [coin \in DOMAIN @ |->
                [@[coin] EXCEPT !.live = [forced_mode_long |-> cleared(coin, "long"),
                                          forced_mode_short |-> cleared(coin, "short")]]]]

\* a resume that waits for the latches but not for the cooldown
ResumeGuardLatchesOnly(a, t) == ~a.paused_due_to_dd /\ ~a.paused_due_to_daily

\* whether maybe_resume() resumes at time t
ResumeGuard(a, t) ==
    t >= a.cooldown_until_ts /\ ~a.paused_due_to_dd /\ ~a.paused_due_to_daily

\* the host flags after the resume step
ResumeFlags(tr) ==
    IF tr.paused THEN [tr EXCEPT !.paused = FALSE, !.skip_entry = FALSE] ELSE tr

\* AIAgent.maybe_resume(trader) at time t: [a: agent, tr: host] afterwards
Resumed(a, tr, t) ==
    IF ~ResumeGuard(a, t) THEN [a |-> a, tr |-> tr]
    ELSE [a |-> [a EXCEPT !.cooldown_until_ts = 0],
          tr |-> ClearCoinForced(ClearGlobalForced(a, ResumeFlags(tr)))]

-----------------------------------------------------------------------------
(* The tick: observe -> evaluate -> apply -> maybe_resume *)

\* bounds of the model
MaxTicks == 2

\* the coins the host trades
Coins == {"BTC", "ETH"}

\* the time AIAgent is constructed: 31 s before a UTC midnight
StartTime == 20000 * SecsPerDay - 31

\* a host configuration that overrides nothing per coin
BaseConfig ==
    [bot |-> [s \in Sides |-> [entry_grid_spacing_pct |-> 20,
                               entry_initial_qty_pct |-> 10,
                               close_grid_qty_pct |-> 50]],
     live |-> [forced_mode_long |-> "", forced_mode_short |-> ""],
     coin_overrides |->
         [c \in Coins |->
             [live |-> [forced_mode_long |-> "", forced_mode_short |-> ""],
              bot |-> [s \in Sides |-> [close_grid_qty_pct |-> None]]]]]

\* a running host with close_all_positions and no strategy attributes
BaseTrader ==
    [paused |-> FALSE, skip_entry |-> FALSE,
     config |-> BaseConfig,
     positions |-> EmptyMap,
     has_close_all |-> TRUE,
     close_calls |-> 0,
     strategy |-> [present |-> FALSE,
                   long |-> [grid_spacing_pct |-> 20],
                   short |-> [grid_spacing_pct |-> 20]],
     shared |-> TRUE]

\* a quiet snapshot; io_ok and close_ok are the tick's environment: whether
\* the audit append and the host's close_all_positions succeed
BaseState ==
    [account |-> [balance |-> 100, unrealized_pnl_pct |-> 0,
                  realized_pnl_pct_today |-> None],
     volatility |-> None,
     spread_pct |-> None,
     market_spread_pct |-> None,
     open_positions |-> <<>>,
     closed_trades |-> <<>>,
     live_config |-> [long |-> None, short |-> None],
     io_ok |-> TRUE,
     close_ok |-> TRUE]

\* trader.positions as the host derives it from the snapshot's open positions
PositionsOf(s) ==
    LET syms == {s.open_positions[i].symbol : i \in DOMAIN s.open_positions}
        size(sym, side) ==
            LET idx == {i \in DOMAIN s.open_positions :
                          /\ s.open_positions[i].symbol = sym
                          /\ s.open_positions[i].position_side = side}
            IN  IF idx = {} THEN 0
                ELSE s.open_positions[CHOOSE i \in idx : \A j \in idx : j <= i].size
    IN  [sym \in syms |-> [side \in Sides |-> [size |-> size(sym, side)]]]

\* self.config is trader.config itself when the host shares the dict
Sync(a, tr) == IF tr.shared THEN [a EXCEPT !.config = tr.config] ELSE a

\* what of the host the agent can change: everything but the positions
HostView(tr) == [tr EXCEPT !.positions = EmptyMap]

InitWith(Raws, Traders) ==
    /\ now = StartTime
    /\ pc = "observe"
    /\ tick = 0
    /\ trader \in Traders
    /\ \E raw \in Raws : agent = AIAgentInit(raw, trader.config, StartTime)
    /\ state = BaseState
    /\ decision = EmptyDecision
    /\ audit_log = <<>>
    /\ ev = [gate |-> "none", built |-> EmptyDecision, raised |-> FALSE,
             latched |-> FALSE,
             agent0 |-> agent, trader0 |-> trader, log0 |-> <<>>, fc_ts |-> None,
             eval_date |-> None, prev_eval_date |-> None]

\* the host takes a snapshot `Deltas` seconds after the last tick and calls observe()
Observe(Snaps, Deltas) ==
    /\ pc = "observe"
    /\ tick < MaxTicks
    /\ \E s \in Snaps, d \in Deltas :
          /\ now' = now + d
          /\ state' = s
          /\ agent' = [agent EXCEPT !.filters = ObserveFilters(agent, s)]
          /\ trader' = [trader EXCEPT !.positions = PositionsOf(s)]
    /\ pc' = "evaluate"
    /\ ev' = [ev EXCEPT !.agent0 = agent, !.trader0 = trader]
    /\ UNCHANGED <<tick, decision, audit_log>>

Evaluate ==
    /\ pc = "evaluate"
    /\ \E r \in {Evaluated(agent, state, now, audit_log)} :
          /\ agent' = r.a
          /\ decision' = r.d
          /\ audit_log' = r.log
          /\ ev' = [ev EXCEPT !.gate = r.gate, !.built = r.built,
                              !.raised = r.raised,
                              !.latched =
                                  \/ r.a.paused_due_to_dd /\ ~agent.paused_due_to_dd
                                  \/ r.a.paused_due_to_daily /\ ~agent.paused_due_to_daily,
                              !.agent0 = agent, !.trader0 = trader,
                              !.log0 = audit_log,
                              !.eval_date = UtcDate(now),
                              !.prev_eval_date = ev.eval_date]
    /\ pc' = "apply"
    /\ UNCHANGED <<now, tick, trader, state>>

\* apply() completes the force-close step of d: the step is not suppressed
\* by shadow mode and the host's close_all_positions does not raise
ForceCloseDone(a, tr, d, close_ok) ==
    /\ d.force_close
    /\ ~a.shadow_mode
    /\ (a.cfg.dry_run \/ ~tr.has_close_all \/ close_ok)

\* apply() runs `lag` seconds after evaluate() read the clock
Apply(Lags) ==
    /\ pc = "apply"
    /\ \E lag \in Lags :
          /\ now' = now + lag
          /\ LET r == Applied(agent, trader, decision, now + lag, state.close_ok)
             IN  /\ trader' = r.tr
                 /\ agent' = Sync(r.a, r.tr)
    /\ pc' = "resume"
    /\ ev' = [ev EXCEPT !.agent0 = agent, !.trader0 = trader,
                        !.fc_ts = IF ForceCloseDone(agent, trader, decision, state.close_ok)
                                  THEN now' ELSE @]
    /\ UNCHANGED <<tick, state, decision, audit_log>>

MaybeResume ==
    /\ pc = "resume"
    /\ LET r == Resumed(agent, trader, now)
       IN  /\ trader' = r.tr
           /\ agent' = Sync(r.a, r.tr)
    /\ pc' = "observe"
    /\ tick' = tick + 1
    /\ ev' = [ev EXCEPT !.agent0 = agent, !.trader0 = trader]
    /\ UNCHANGED <<now, state, decision, audit_log>>

-----------------------------------------------------------------------------
(* Inputs *)

\* five consecutive losing ETH trades, and four of them after a winning one
LosingEth == [i \in 1..5 |-> [symbol |-> "ETHUSDT", pnl_pct |-> 0 - 10]]
MixedEth == <<[symbol |-> "ETHUSDT", pnl_pct |-> 10]>> \o SubSeq(LosingEth, 1, 4)

\* an open BTC long position of the given size and unrealized PnL
BtcLong(size, upnl) ==
    <<[symbol |-> "BTCUSDT", position_side |-> "long", size |-> size, upnl_pct |-> upnl]>>

-----------------------------------------------------------------------------
(* Spec: a live agent with the default configuration *)

Snaps ==
    {[BaseState EXCEPT !.account.unrealized_pnl_pct = u,
                       !.volatility = v,
                       !.closed_trades = ct] :
        u \in {0, 0 - 40}, v \in {None, 40, 100}, ct \in {<<>>, LosingEth, MixedEth}}

Init == InitWith({RawDefault}, {BaseTrader})

Next ==
    \/ Observe(Snaps, {30, 90})
    \/ Evaluate
    \/ Apply({0, 1})
    \/ MaybeResume

Spec == Init /\ [][Next]_vars

-----------------------------------------------------------------------------
(* Claims checked under Spec *)

\* evaluate() has just returned
AfterEvaluate == pc = "apply"
\* apply() has just returned
AfterApply == pc = "resume"
\* maybe_resume() has just returned
AfterResume == pc = "observe" /\ tick > 0

CooldownDecision == [EmptyDecision EXCEPT !.info = "cooldown"]

\* C1: in non-shadow mode, once apply() has completed the force-close step
\* of a Decision at time t, every evaluate() at a time strictly between t and
\* t + cooldown_secs_after_force_close returns exactly {info: "cooldown"}
\* and changes neither the agent nor the audit log, whatever else the applied
\* Decision carried.
C1_CooldownAfterForceClose ==
    (/\ AfterEvaluate
     /\ ~agent.shadow_mode
     /\ ev.fc_ts # None
     /\ now > ev.fc_ts
     /\ now < ev.fc_ts + agent.cfg.cooldown_secs_after_force_close)
    => /\ decision = CooldownDecision
       /\ agent = ev.agent0
       /\ audit_log = ev.log0

\* C5: when the closed trades are five consecutive losing ETH trades
\* (window 5) and the current long spacing is a number, the proposed
\* adjust["long.grid_spacing_pct"] is the current spacing reduced by the
\* losing_streak_adjustment fraction (0.02 and 0.2 give 0.016).
C5_ReducedByFraction ==
    (/\ AfterEvaluate
     /\ ev.gate = "checks"
     /\ state.closed_trades = LosingEth
     /\ ev.agent0.cfg.losing_streak_window = 5
     /\ DOMAIN ev.agent0.symbol_overrides = {}
     /\ CurrentSpacing(ev.agent0, state, "long") # None)
    => /\ LongSpacingPath \in DOMAIN ev.built.adjust
       /\ ev.built.adjust[LongSpacingPath] * Unit
            = CurrentSpacing(ev.agent0, state, "long")
                * (Unit - ev.agent0.cfg.losing_streak_adjustment)

\* C9: whenever maybe_resume() runs with now >= cooldown_until_ts and neither
\* the drawdown-pause nor the daily-pause latch set, the host's paused and
\* skip_entry flags are both false afterwards and cooldown_until_ts is 0.
C9_ResumeClearsFlags ==
    (/\ AfterResume
     /\ now >= ev.agent0.cooldown_until_ts
     /\ ~ev.agent0.paused_due_to_dd
     /\ ~ev.agent0.paused_due_to_daily)
    => /\ ~trader.paused
       /\ ~trader.skip_entry
       /\ agent.cooldown_until_ts = 0

-----------------------------------------------------------------------------
(* SpecVol: the volatility latch, default and fast smoothing *)

RawsVol == {[RawDefault EXCEPT !.smoothing.vol_ema_alpha = al] : al \in {None, 500}}

SnapsVol == {[BaseState EXCEPT !.volatility = v] : v \in {None, 40, 70, 100}}

InitVol == InitWith(RawsVol, {BaseTrader})

NextVol ==
    \/ Observe(SnapsVol, {30})
    \/ Evaluate
    \/ Apply({0})
    \/ MaybeResume

SpecVol == InitVol /\ [][NextVol]_vars

\* the tick's vol_ema lies strictly inside the hysteresis band
InOpenBand(a) ==
    /\ a.filters.vol_ema # None
    /\ a.hysteresis.volatility_exit < a.filters.vol_ema
    /\ a.filters.vol_ema < a.hysteresis.volatility_enter

\* C3: on a tick that reaches the volatility check with vol_ema available
\* and volatility_exit < vol_ema < volatility_enter, blocking_due_to_vol
\* keeps the value it had before the tick.
C3_NoToggleInsideBand ==
    (AfterEvaluate /\ ev.gate = "checks" /\ InOpenBand(ev.agent0))
    => agent.blocking_due_to_vol = ev.agent0.blocking_due_to_vol

\* C3 witness: a tick inside the band with the latch set, which stayed set
C3_Witness ==
    /\ AfterEvaluate /\ ev.gate = "checks" /\ InOpenBand(ev.agent0)
    /\ ev.agent0.blocking_due_to_vol
    /\ agent.blocking_due_to_vol

-----------------------------------------------------------------------------
(* SpecBudget: small hourly caps, with and without the kill switch *)

RawsBudget ==
    {[RawDefault EXCEPT !.kill_switch = k,
                        !.cooldown_secs_after_adjust = 5,
                        !.budgets = [max_actions_per_hour |-> ma,
                                     max_adjusts_per_hour |-> mj]] :
        k \in BOOLEAN, ma \in {0, 1, 2}, mj \in {0, 1}}

SnapsBudget ==
    {[BaseState EXCEPT !.volatility = v, !.closed_trades = ct] :
        v \in {None, 100}, ct \in {<<>>, LosingEth}}

InitBudget == InitWith(RawsBudget, {BaseTrader})

NextBudget ==
    \/ Observe(SnapsBudget, {30, 3600})
    \/ Evaluate
    \/ Apply({0, 1})
    \/ MaybeResume

SpecBudget == InitBudget /\ [][NextBudget]_vars

WithinCaps ==
    /\ agent.actions_this_hour <= agent.budgets.max_actions_per_hour
    /\ agent.adjusts_this_hour <= agent.budgets.max_adjusts_per_hour

\* C2 as stated: in non-shadow mode, under any configuration, after any
\* sequence of ticks actions_this_hour never exceeds max_actions_per_hour and
\* adjusts_this_hour never exceeds max_adjusts_per_hour.
C2_CapsUnderAnyConfig == ~agent.shadow_mode => WithinCaps

\* C2 amended: the same, for configurations without the kill switch (the
\* kill-switch Decision is returned before the budget check) and with
\* non-negative caps.
C2_CapsWithoutKillSwitch ==
    (/\ ~agent.shadow_mode
     /\ ~agent.cfg.kill_switch
     /\ agent.budgets.max_actions_per_hour >= 0
     /\ agent.budgets.max_adjusts_per_hour >= 0)
    => WithinCaps

\* C2 witness: both counters stand at their caps and the next acting
\* Decision, which bore an adjust, was refused
C2_Witness ==
    /\ AfterEvaluate
    /\ ~agent.shadow_mode /\ ~agent.cfg.kill_switch
    /\ agent.budgets.max_actions_per_hour > 0
    /\ agent.actions_this_hour = agent.budgets.max_actions_per_hour
    /\ agent.adjusts_this_hour = agent.budgets.max_adjusts_per_hour
    /\ HasAdjust(ev.built)
    /\ decision.info = "budget_action_limit"

\* C10: in non-shadow mode, when the Decision the checks built would act and
\* actions_this_hour + 1 > max_actions_per_hour in the current hour window,
\* evaluate() returns exactly {info: "budget_action_limit"}, also when the
\* adjust cap is exceeded as well.
C10_ActionLimitFirst ==
    (/\ AfterEvaluate /\ ev.gate = "checks"
     /\ ~agent.shadow_mode
     /\ \/ ev.built.pause_bot # ""
        \/ ev.built.block_entry
        \/ ev.built.force_close
        \/ ev.built.adjust # NoAdjust
        \/ ev.built.rescue # NoRescue
     /\ agent.actions_this_hour + 1 > agent.budgets.max_actions_per_hour)
    => decision = [EmptyDecision EXCEPT !.info = "budget_action_limit"]

\* C10 witness: both caps are exceeded, the built Decision bears an adjust and
\* a block_entry, and the action limit is what evaluate() reports
C10_Witness ==
    /\ AfterEvaluate /\ ev.gate = "checks"
    /\ ~agent.shadow_mode
    /\ agent.budgets.max_actions_per_hour > 0
    /\ agent.actions_this_hour + 1 > agent.budgets.max_actions_per_hour
    /\ agent.adjusts_this_hour + 1 > agent.budgets.max_adjusts_per_hour
    /\ ev.built.adjust # NoAdjust /\ ev.built.block_entry
    /\ decision = [EmptyDecision EXCEPT !.info = "budget_action_limit"]

\* C11: in non-shadow mode with the action cap not exceeded and
\* adjusts_this_hour + 1 > max_adjusts_per_hour, a Decision bearing adjust is
\* returned without adjust and with info = "budget_adjust_limit"; its
\* pause_bot, block_entry and force_close are preserved, and a Decision whose
\* only action was the adjust is returned as exactly
\* {info: "budget_adjust_limit"}.
C11_AdjustStripped ==
    (/\ AfterEvaluate /\ ev.gate = "checks"
     /\ ~agent.shadow_mode
     /\ agent.actions_this_hour + 1 <= agent.budgets.max_actions_per_hour
     /\ agent.adjusts_this_hour + 1 > agent.budgets.max_adjusts_per_hour
     /\ ev.built.adjust # NoAdjust)
    => /\ decision.adjust = NoAdjust
       /\ decision.info = "budget_adjust_limit"
       /\ decision.pause_bot = ev.built.pause_bot
       /\ decision.block_entry = ev.built.block_entry
       /\ decision.force_close = ev.built.force_close
       /\ (ev.built.pause_bot = "" /\ ~ev.built.block_entry /\ ~ev.built.force_close)
            => decision = [EmptyDecision EXCEPT !.info = "budget_adjust_limit"]

\* the budget window of agent b is that of agent a after a check at the
\* current time: moved to the hour bucket of now with both counters at 0 when
\* the bucket differs from a's window start, unchanged otherwise; then `acts`
\* actions and `adjs` adjusts are counted
WindowChecked(a, b, acts, adjs) ==
    LET bucket == (now \div 3600) * 3600
        rolled == bucket # a.hour_window_start_ts
    IN  /\ b.hour_window_start_ts = bucket
        /\ b.actions_this_hour = (IF rolled THEN 0 ELSE a.actions_this_hour) + acts
        /\ b.adjusts_this_hour = (IF rolled THEN 0 ELSE a.adjusts_this_hour) + adjs

\* C12: whenever the budget window is checked (by an evaluate() that reaches
\* the budget step, and by an apply() that acted in non-shadow mode before it
\* counts the action) at a time whose hour bucket floor(now/3600)*3600 differs
\* from hour_window_start_ts, both counters become 0 and the window start
\* becomes the new bucket; with the same bucket all three are unchanged.
C12_WindowRollover ==
    /\ (AfterEvaluate /\ ev.gate = "checks")
         => WindowChecked(ev.agent0, agent, 0, 0)
    /\ (/\ AfterApply /\ ~agent.shadow_mode
        /\ \/ decision.pause_bot # ""
           \/ decision.block_entry
           \/ decision.force_close
           \/ decision.adjust # NoAdjust)
         => WindowChecked(ev.agent0, agent, 1,
                          IF decision.adjust # NoAdjust THEN 1 ELSE 0)

\* C12 witness: an evaluate() an hour or more after counted actions finds the
\* bucket changed and zeroes the counters
C12_Witness ==
    /\ AfterEvaluate /\ ev.gate = "checks"
    /\ ev.agent0.actions_this_hour > 0
    /\ ev.agent0.hour_window_start_ts # (now \div 3600) * 3600
    /\ agent.actions_this_hour = 0 /\ agent.adjusts_this_hour = 0
    /\ agent.hour_window_start_ts = (now \div 3600) * 3600

-----------------------------------------------------------------------------
(* SpecDD: a balance drop of 12 %, with the default and a wider absolute cap *)

RawsDD ==
    {[RawDefault EXCEPT !.max_drawdown_pct = md,
                        !.budgets.max_actions_per_hour = ma] :
        md \in {None, 200}, ma \in {None, 0}}

SnapsDD ==
    {[BaseState EXCEPT !.account.balance = b,
                       !.account.realized_pnl_pct_today = r] :
        b \in {100, 88, 96}, r \in {None, 0 - 70}}

InitDD == InitWith(RawsDD, {BaseTrader})

NextDD ==
    \/ Observe(SnapsDD, {30})
    \/ Evaluate
    \/ Apply({0})
    \/ MaybeResume

SpecDD == InitDD /\ [][NextDD]_vars

\* the tick reached the drawdown check with the latch not set and computed
\* dd_ratio >= dd_pause_enter
DdEnters ==
    /\ AfterEvaluate /\ ev.gate = "checks"
    /\ ~ev.agent0.paused_due_to_dd
    /\ agent.last_dd_ratio.d > 0
    /\ agent.last_dd_ratio.n * Unit
         >= ev.agent0.hysteresis.dd_pause_enter * agent.last_dd_ratio.d

\* the absolute cap fires on the tick: dd_ratio >= max_drawdown_pct
DdCapFires ==
    agent.last_dd_ratio.n * Unit >= agent.cfg.max_drawdown_pct * agent.last_dd_ratio.d

\* the daily-loss check fires on the tick
DailyFires ==
    /\ state.account.realized_pnl_pct_today # None
    /\ state.account.realized_pnl_pct_today <= 0 - agent.cfg.max_daily_loss_pct
    /\ ~(ev.agent0.paused_due_to_daily /\ ev.agent0.last_utc_date = now \div SecsPerDay)

\* C4 as stated: on a tick that reaches the drawdown check with the latch not
\* set and dd_ratio >= dd_pause_enter, the Decision evaluate() produces
\* includes pause_bot = "session_dd".
C4_SessionDdReason == DdEnters => decision.pause_bot = "session_dd"

\* C4 amended: on such a tick the latch is set and the Decision the checks
\* build carries pause_bot: "daily_loss" when the daily-loss check fires,
\* else "max_drawdown" when dd_ratio >= max_drawdown_pct, else "session_dd";
\* evaluate() returns that pause_bot unless the action budget replaces the
\* Decision by {info: "budget_action_limit"}.
C4_PauseReasonLastWins ==
    DdEnters =>
        /\ agent.paused_due_to_dd
        /\ ev.built.pause_bot = IF DailyFires THEN "daily_loss"
                                ELSE IF DdCapFires THEN "max_drawdown"
                                ELSE "session_dd"
        /\ \/ decision = [EmptyDecision EXCEPT !.info = "budget_action_limit"]
           \/ decision.pause_bot = ev.built.pause_bot

\* C4 witness: balance 100 -> 88 with dd_pause_enter 0.12 below the absolute
\* cap: the Decision returned says "session_dd"
C4_Witness ==
    /\ DdEnters
    /\ state.account.balance = 88
    /\ ev.agent0.session_peak_equity = 100 * Unit
    /\ ev.agent0.hysteresis.dd_pause_enter = 120
    /\ ~DdCapFires /\ ~DailyFires
    /\ decision.pause_bot = "session_dd"

-----------------------------------------------------------------------------
(* SpecRescue: an open BTC long position at the rescue trigger loss *)

TradersRescue == {[BaseTrader EXCEPT !.has_close_all = h] : h \in BOOLEAN}

SnapsRescue ==
    {[BaseState EXCEPT !.open_positions = op, !.volatility = v] :
        op \in {<<>>, BtcLong(1, 0 - rescue_cfg.trigger_loss_pct), BtcLong(0, 0),
                BtcLong(1, 0 - 10)},
        v \in {None, 40}}

InitRescue == InitWith({RawDefault}, TradersRescue)

NextRescue ==
    \/ Observe(SnapsRescue, {30, 150})
    \/ Evaluate
    \/ Apply({0})
    \/ MaybeResume

SpecRescue == InitRescue /\ [][NextRescue]_vars

\* C6 (first half of the round trip): when the open BTC long position has
\* unrealized-PnL-percent <= -trigger_loss_pct in benign volatility and is not
\* yet in rescue state, the tick that reaches the checks engages rescue for
\* (BTC, long).
C6_RescueEngages ==
    (/\ AfterEvaluate /\ ev.gate = "checks"
     /\ state.open_positions = BtcLong(1, 0 - rescue_cfg.trigger_loss_pct)
     /\ ~agent.blocking_due_to_vol
     /\ \/ agent.filters.vol_ema = None
        \/ agent.filters.vol_ema <= agent.hysteresis.volatility_exit
     /\ <<"BTC", "long">> \notin DOMAIN ev.agent0._rescue_state)
    => <<"BTC", "long">> \in ev.built.rescue.engage

-----------------------------------------------------------------------------
(* SpecShadow: a shadow-mode agent on a host whose operator forced modes *)

RawsShadow ==
    {[RawDefault EXCEPT !.shadow_mode = TRUE, !.dry_run = dr] : dr \in BOOLEAN}

TradersShadow ==
    {[BaseTrader EXCEPT !.config.live.forced_mode_long = g,
                        !.config.coin_overrides["BTC"].live.forced_mode_long = c] :
        g \in {"", "graceful_stop"}, c \in {"", "graceful_stop"}}

SnapsActing ==
    {[BaseState EXCEPT !.account.unrealized_pnl_pct = u,
                       !.volatility = v,
                       !.closed_trades = ct] :
        u \in {0, 0 - 40}, v \in {None, 100}, ct \in {<<>>, LosingEth}}

InitShadow == InitWith(RawsShadow, TradersShadow)

NextShadow ==
    \/ Observe(SnapsActing, {30, 90})
    \/ Evaluate
    \/ Apply({0})
    \/ MaybeResume

SpecShadow == InitShadow /\ [][NextShadow]_vars

\* C7: in shadow mode no observe, evaluate, apply or maybe_resume call changes
\* host state: paused, skip_entry, the configuration (forced modes and coin
\* overrides included) and the count of close_all_positions calls are what
\* they were before the call.
C7_ShadowLeavesHost ==
    agent.shadow_mode => HostView(trader) = HostView(ev.trader0)

-----------------------------------------------------------------------------
(* SpecDryRun: a dry-run agent *)

RawsDryRun == {[RawDefault EXCEPT !.dry_run = TRUE]}

InitDryRun == InitWith(RawsDryRun, TradersRescue)

NextDryRun ==
    \/ Observe(SnapsActing, {30, 90})
    \/ Evaluate
    \/ Apply({0})
    \/ MaybeResume

SpecDryRun == InitDryRun /\ [][NextDryRun]_vars

\* C8: in dry-run mode (not shadow) apply() of any Decision leaves the host as
\* it was: paused, skip_entry, configuration values, and no
\* close_all_positions call.
C8_DryRunApplyLeavesHost ==
    (AfterApply /\ agent.cfg.dry_run /\ ~agent.shadow_mode)
    => HostView(trader) = HostView(ev.trader0)

-----------------------------------------------------------------------------
(* SpecDaily: realized losses around a UTC midnight, ticks 3 to 30 s apart *)

SnapsDaily ==
    {[BaseState EXCEPT !.account.realized_pnl_pct_today = r] :
        r \in {None, 0 - 50, 0 - 70, 0 - 90}}

InitDaily == InitWith({RawDefault}, {BaseTrader})

NextDaily ==
    \/ Observe(SnapsDaily, {3, 10, 30})
    \/ Evaluate
    \/ Apply({0})
    \/ MaybeResume

SpecDaily == InitDaily /\ [][NextDaily]_vars

\* the realized loss of the tick's snapshot is at or past max_daily_loss_pct
DailyLossReached ==
    /\ state.account.realized_pnl_pct_today # None
    /\ state.account.realized_pnl_pct_today <= 0 - agent.cfg.max_daily_loss_pct

\* C13: a tick that reaches the daily-loss check with realized_pnl_pct_today
\* <= -max_daily_loss_pct, as the first such tick of its UTC date or with the
\* daily latch unset, builds a Decision with pause_bot = "daily_loss" and sets
\* paused_due_to_daily; a later tick of the same UTC date, which finds the
\* latch set, produces no pause_bot = "daily_loss" and leaves the latch set,
\* even if the realized loss is worse.
C13_DailyLossOncePerDay ==
    /\ (/\ AfterEvaluate /\ ev.gate = "checks" /\ DailyLossReached
        /\ \/ ev.agent0.last_utc_date # now \div 86400
           \/ ~ev.agent0.paused_due_to_daily)
         => /\ ev.built.pause_bot = "daily_loss"
            /\ agent.paused_due_to_daily
    /\ (/\ AfterEvaluate
        /\ ev.agent0.paused_due_to_daily
        /\ ev.agent0.last_utc_date = now \div 86400)
         => /\ ev.built.pause_bot # "daily_loss"
            /\ decision.pause_bot # "daily_loss"
            /\ agent.paused_due_to_daily

\* C13 witness: the latch was set earlier on this UTC date, the loss has
\* worsened to 0.09, and the tick that reaches the checks does not pause again
C13_Witness ==
    /\ AfterEvaluate /\ ev.gate = "checks"
    /\ ev.agent0.paused_due_to_daily
    /\ ev.agent0.last_utc_date = now \div 86400
    /\ state.account.realized_pnl_pct_today = 0 - 90
    /\ decision.pause_bot = ""
    /\ agent.paused_due_to_daily

\* the last evaluate() reset the daily tracker: it moved last_utc_date
DailyReset == agent.last_utc_date # ev.agent0.last_utc_date

\* C14 as stated: the daily tracker and the daily latch are reset exactly once
\* for each UTC date, on the first evaluate() of that date and on no later
\* evaluate() of the same date.
C14_ResetOnFirstEvaluate ==
    AfterEvaluate => (DailyReset <=> ev.prev_eval_date # now \div 86400)

\* C14 amended: they are reset on the first evaluate() of each UTC date that
\* reaches the daily-loss check (one that is not cut short by the disabled
\* flag, the kill switch, the cooldown or the min-interval gate), and on no
\* other evaluate(); the reset sets last_utc_date to the date and
\* daily_pnl_tracker to 0 and clears paused_due_to_daily before the loss is
\* looked at, and without a reset the tracker and a set latch are kept.
C14_ResetOnFirstCheckOfDate ==
    AfterEvaluate =>
        /\ DailyReset <=> (ev.gate = "checks" /\ ev.agent0.last_utc_date # now \div 86400)
        /\ DailyReset =>
             /\ agent.last_utc_date = now \div 86400
             /\ agent.daily_pnl_tracker = 0
             /\ agent.paused_due_to_daily = DailyLossReached
        /\ ~DailyReset =>
             /\ agent.last_utc_date = ev.agent0.last_utc_date
             /\ agent.daily_pnl_tracker = ev.agent0.daily_pnl_tracker
             /\ ev.agent0.paused_due_to_daily => agent.paused_due_to_daily

\* C14 witness: the first evaluate() of a new UTC date returned at the
\* min-interval gate and reset nothing, the latch of the day before still set
C14_Witness ==
    /\ AfterEvaluate /\ ev.gate = "min_interval"
    /\ ev.prev_eval_date # now \div 86400
    /\ agent.last_utc_date = ev.prev_eval_date
    /\ agent.paused_due_to_daily

-----------------------------------------------------------------------------
(* SpecEquity: balance and unrealized PnL moving the equity up and down *)

SnapsEquity ==
    {[BaseState EXCEPT !.account.balance = b, !.account.unrealized_pnl_pct = u] :
        b \in {100, 88, 110}, u \in {0, 0 - 20, 20}}

InitEquity == InitWith({RawDefault}, {BaseTrader})

NextEquity ==
    \/ Observe(SnapsEquity, {30})
    \/ Evaluate
    \/ Apply({0})
    \/ MaybeResume

SpecEquity == InitEquity /\ [][NextEquity]_vars

\* balance * (1 + unrealized_pnl_pct) of the tick's snapshot, in 1/1000
SnapshotEquity == state.account.balance * (1000 + state.account.unrealized_pnl_pct)

\* the tick reached the drawdown check with a positive peak
DdChecked == AfterEvaluate /\ ev.gate = "checks" /\ agent.session_peak_equity > 0

\* the fraction r equals num / den; equities are whole multiples of 10, and
\* the cross products are taken on tenths to stay within 32-bit integers
SameRatio(r, num, den) ==
    (r.n \div 10) * (den \div 10) = (num \div 10) * (r.d \div 10)

\* C15 as stated: the drawdown ratio stored in last_dd_ratio equals
\* max(0, session_peak_equity / equity - 1) with
\* equity = balance * (1 + unrealized_pnl_pct).
C15_DdOverEquity ==
    DdChecked =>
        SameRatio(agent.last_dd_ratio,
                  Max(0, agent.session_peak_equity - SnapshotEquity), SnapshotEquity)

\* C15 amended: the drawdown ratio stored in last_dd_ratio equals
\* max(0, 1 - equity / session_peak_equity), the drop measured against the
\* peak, and it is this ratio that is compared with dd_pause_enter,
\* dd_pause_exit and max_drawdown_pct.
C15_DdOverPeak ==
    DdChecked =>
        LET peak == agent.session_peak_equity
            drop == Max(0, peak - SnapshotEquity)
            was == ev.agent0.paused_due_to_dd
        IN  /\ agent.last_dd_ratio.d > 0
            /\ SameRatio(agent.last_dd_ratio, drop, peak)
            /\ agent.paused_due_to_dd =
                 IF ~was /\ drop * 1000 >= agent.hysteresis.dd_pause_enter * peak THEN TRUE
                 ELSE IF was /\ drop * 1000 <= agent.hysteresis.dd_pause_exit * peak
                 THEN FALSE
                 ELSE was
            /\ (ev.built.pause_bot = "max_drawdown")
                 <=> drop * 1000 >= agent.cfg.max_drawdown_pct * peak

\* C15 witness: peak 100, equity 88: the stored ratio is 0.12
C15_Witness ==
    /\ DdChecked
    /\ agent.session_peak_equity = 100 * 1000
    /\ SnapshotEquity = 88 * 1000
    /\ agent.last_dd_ratio.n * 1000 = 120 * agent.last_dd_ratio.d

\* C20: session_peak_equity never decreases over any observe, evaluate,
\* apply or maybe_resume call, and after every tick that reaches the drawdown
\* check it is at least the tick's equity balance * (1 + unrealized_pnl_pct).
C20_PeakIsHighWater ==
    /\ agent.session_peak_equity >= ev.agent0.session_peak_equity
    /\ (AfterEvaluate /\ ev.gate = "checks")
         => agent.session_peak_equity >= SnapshotEquity

\* C20 witness: the equity fell below an earlier peak, which was kept
C20_Witness ==
    /\ AfterEvaluate /\ ev.gate = "checks"
    /\ ev.agent0.session_peak_equity > 0
    /\ SnapshotEquity < ev.agent0.session_peak_equity
    /\ agent.session_peak_equity = ev.agent0.session_peak_equity

-----------------------------------------------------------------------------
(* SpecKill: the kill switch configured, ticks 3 or 30 s apart *)

RawsKill ==
    {[RawDefault EXCEPT !.kill_switch = TRUE,
                        !.dry_run = dr,
                        !.budgets.max_actions_per_hour = ma] :
        dr \in BOOLEAN, ma \in {None, 1}}

InitKill == InitWith(RawsKill, {BaseTrader})

NextKill ==
    \/ Observe(SnapsActing, {3, 30})
    \/ Evaluate
    \/ Apply({0})
    \/ MaybeResume

SpecKill == InitKill /\ [][NextKill]_vars

\* C16: with the kill switch configured and the agent enabled, evaluate()
\* returns exactly {pause_bot: "kill_switch"} whatever the snapshot and the
\* agent state, changes no attribute of the agent and writes no audit record.
C16_KillSwitchShortCircuits ==
    (AfterEvaluate /\ agent.enabled /\ agent.cfg.kill_switch)
    => /\ decision = [EmptyDecision EXCEPT !.pause_bot = "kill_switch"]
       /\ agent = ev.agent0
       /\ audit_log = ev.log0

\* C16 witness: the min interval since the last action has not elapsed, the
\* action budget is used up, the snapshot would force-close and block, and
\* evaluate() still returns the kill-switch Decision
C16_Witness ==
    /\ AfterEvaluate /\ agent.enabled /\ agent.cfg.kill_switch
    /\ agent.last_action_ts > 0
    /\ now - agent.last_action_ts < agent.cfg.min_interval_secs
    /\ agent.actions_this_hour + 1 > agent.budgets.max_actions_per_hour
    /\ state.account.unrealized_pnl_pct = 0 - 40 /\ state.volatility = 100
    /\ decision = [EmptyDecision EXCEPT !.pause_bot = "kill_switch"]

-----------------------------------------------------------------------------
(* SpecObserve: snapshots with absent, unconvertible and numeric readings *)

SnapsObserve ==
    {[BaseState EXCEPT !.volatility = v, !.account.unrealized_pnl_pct = u] :
        v \in {None, Bad, 40, 100}, u \in {None, Bad, 0 - 20}}

InitObserve == InitWith({RawDefault}, {BaseTrader})

NextObserve ==
    \/ Observe(SnapsObserve, {30})
    \/ Evaluate
    \/ Apply({0})
    \/ MaybeResume

SpecObserve == InitObserve /\ [][NextObserve]_vars

\* observe() has just run on the tick's snapshot
AfterObserve == pc = "evaluate"

\* C17: _ema(prev, value, alpha) returns prev when value is absent and value
\* when prev is absent; an observe() whose snapshot has no volatility leaves
\* vol_ema unchanged, and the first observe() that carries a volatility sets
\* vol_ema to exactly that value.
C17_EmaAbsentAndFirst ==
    /\ \A prev \in {None, 0, 40, 100}, alpha \in {150, 200, 1000} :
          _ema(prev, None, alpha) = prev
    /\ \A value \in {0, 40, 100}, alpha \in {150, 200, 1000} :
          _ema(None, value, alpha) = value
    /\ (AfterObserve /\ state.volatility = None)
         => agent.filters.vol_ema = ev.agent0.filters.vol_ema
    /\ (AfterObserve /\ state.volatility \in {40, 100}
        /\ ev.agent0.filters.vol_ema = None)
         => agent.filters.vol_ema = state.volatility

\* C17 witness: a snapshot without volatility after one that carried 0.1
C17_Witness ==
    /\ AfterObserve /\ state.volatility = None
    /\ ev.agent0.filters.vol_ema = 100
    /\ agent.filters.vol_ema = 100

\* C18: an observe() whose snapshot carries no account unrealized_pnl_pct
\* leaves upnl_ema unchanged.
C18_AbsentUpnlKeepsEma ==
    (AfterObserve /\ state.account.unrealized_pnl_pct = None)
    => agent.filters.upnl_ema = ev.agent0.filters.upnl_ema

-----------------------------------------------------------------------------
(* SpecHyst: hysteresis thresholds defaulted and given in the configuration *)

RawsHyst ==
    {[RawDefault EXCEPT !.hysteresis = [volatility_enter |-> ve,
                                        volatility_exit |-> vx,
                                        dd_pause_enter |-> None,
                                        dd_pause_exit |-> dx]] :
        ve \in {None, 40}, vx \in {None, 20, 90}, dx \in {None, 150}}

SnapsHyst == {[BaseState EXCEPT !.volatility = v] : v \in {None, 30, 85}}

InitHyst == InitWith(RawsHyst, {BaseTrader})

NextHyst ==
    \/ Observe(SnapsHyst, {30})
    \/ Evaluate
    \/ Apply({0})
    \/ MaybeResume

SpecHyst == InitHyst /\ [][NextHyst]_vars

\* C19: for every agent constructed from any configuration,
\* volatility_exit <= volatility_enter and dd_pause_exit <= dd_pause_enter,
\* with the exit values defaulted or given explicitly.
C19_ExitBelowEnter ==
    /\ agent.hysteresis.volatility_exit <= agent.hysteresis.volatility_enter
    /\ agent.hysteresis.dd_pause_exit <= agent.hysteresis.dd_pause_enter


-----------------------------------------------------------------------------
(* SpecMalformed: snapshots with absent and malformed fields, an audit log *)
(* whose append may fail, with and without room in the action budget       *)

RawsMalformed ==
    {[RawDefault EXCEPT !.budgets.max_actions_per_hour = ma] : ma \in {None, 0}}

\* no account at all, a non-numeric PnL, a non-numeric balance, a sound one
AccountsMalformed ==
    {[balance |-> None, unrealized_pnl_pct |-> None, realized_pnl_pct_today |-> None],
     [balance |-> 100, unrealized_pnl_pct |-> Bad, realized_pnl_pct_today |-> None],
     [balance |-> Bad, unrealized_pnl_pct |-> 0 - 40, realized_pnl_pct_today |-> None],
     [balance |-> 100, unrealized_pnl_pct |-> 0 - 40, realized_pnl_pct_today |-> None]}

SnapsMalformed ==
    {[BaseState EXCEPT !.account = acc,
                       !.volatility = v,
                       !.open_positions = ps,
                       !.io_ok = io] :
        acc \in AccountsMalformed, v \in {None, Bad, 100},
        ps \in {<<>>, BtcLong(1, Bad)}, io \in BOOLEAN}

InitMalformed == InitWith(RawsMalformed, {BaseTrader})

NextMalformed ==
    \/ Observe(SnapsMalformed, {30})
    \/ Evaluate
    \/ Apply({0})
    \/ MaybeResume

SpecMalformed == InitMalformed /\ [][NextMalformed]_vars

\* d is a Decision mapping: every key holds a value of its kind
IsDecision(d) ==
    /\ d.pause_bot \in {"", "kill_switch", "session_dd", "max_drawdown", "daily_loss"}
    /\ d.block_entry \in BOOLEAN
    /\ d.force_close \in BOOLEAN
    /\ DOMAIN d.adjust \subseteq {LongSpacingPath, ShortSpacingPath}
    /\ d.rescue = NoRescue
    /\ d.info \in {"", "cooldown", "budget_action_limit", "budget_adjust_limit"}

\* C21: evaluate() never raises out of a tick: for every snapshot, with the
\* account absent, a non-numeric volatility, balance or PnL, no open
\* positions or a position whose PnL is non-numeric, and with the rescue
\* attributes absent, no exception leaves the call and it returns a
\* Decision mapping.
C21_NeverRaises ==
    AfterEvaluate => ~ev.raised /\ IsDecision(decision)

\* evaluate() returned although the account stop, the volatility fallback,
\* the per-position stop and the rescue block all raised
C21_Witness ==
    /\ AfterEvaluate
    /\ ev.gate = "checks"
    /\ {"account_stop", "volatility", "position_stop", "rescue"}
          \subseteq RaisingBlocks(ev.agent0, state, ev.built)
    /\ ~ev.raised

\* C22: when the audit append fails on an I/O error, evaluate() returns the
\* Decision, and leaves the agent (latches, peak, budget window) in the
\* state, that the same call returns and leaves when the append succeeds.
C22_AuditFailureSwallowed ==
    (AfterEvaluate /\ ~state.io_ok)
    => \E r \in {Evaluated(ev.agent0, [state EXCEPT !.io_ok = TRUE], now, ev.log0)} :
          /\ ~ev.raised
          /\ decision = r.d
          /\ agent = r.a

\* the append of a record for a built Decision failed on I/O alone, on a tick
\* that set the volatility latch and was limited by the action budget
C22_Witness ==
    /\ AfterEvaluate
    /\ ~state.io_ok
    /\ IsNum(state.account.balance) /\ IsNum(state.account.unrealized_pnl_pct)
    /\ ev.built # EmptyDecision
    /\ audit_log = ev.log0
    /\ agent.blocking_due_to_vol /\ ~ev.agent0.blocking_due_to_vol
    /\ decision.info = "budget_action_limit"


-----------------------------------------------------------------------------
(* SpecShadowBudget: a shadow-mode agent with and without exhausted caps *)

RawsShadowBudget ==
    {[RawDefault EXCEPT !.shadow_mode = TRUE,
                        !.budgets = [max_actions_per_hour |-> ma,
                                     max_adjusts_per_hour |-> mj]] :
        ma \in {None, 0}, mj \in {None, 0}}

InitShadowBudget == InitWith(RawsShadowBudget, {BaseTrader})

NextShadowBudget ==
    \/ Observe(SnapsActing, {3, 30})
    \/ Evaluate
    \/ Apply({0})
    \/ MaybeResume

SpecShadowBudget == InitShadowBudget /\ [][NextShadowBudget]_vars

BudgetInfo == {"budget_action_limit", "budget_adjust_limit"}

\* C23: in shadow mode evaluate() never returns info "budget_action_limit"
\* or "budget_adjust_limit" and returns the Decision the checks built as
\* they built it, whatever the counters and caps are; and no call of the
\* tick increases actions_this_hour or adjusts_this_hour.
C23_ShadowBypassesBudget ==
    agent.shadow_mode
    => /\ AfterEvaluate
          => /\ decision.info \notin BudgetInfo
             /\ ev.gate = "checks" => decision = ev.built
       /\ agent.actions_this_hour <= ev.agent0.actions_this_hour
       /\ agent.adjusts_this_hour <= ev.agent0.adjusts_this_hour

\* a shadow agent whose caps are both exhausted applied a Decision with a
\* force-close and an adjust, and counted nothing
C23_Witness ==
    /\ AfterApply
    /\ agent.shadow_mode
    /\ ev.gate = "checks"
    /\ decision = ev.built
    /\ decision.force_close /\ HasAdjust(decision)
    /\ ActionCapHit(ev.agent0) /\ AdjustCapHit(ev.agent0)
    /\ agent.actions_this_hour = 0 /\ agent.adjusts_this_hour = 0

\* C30: in shadow mode apply() of any Decision leaves last_action_ts,
\* cooldown_until_ts and the budget counters unchanged, and so the
\* min-interval gate never ends the evaluate() that follows a suppressed
\* action.
C30_ShadowApplyLeavesTimers ==
    agent.shadow_mode
    => /\ AfterApply
          => /\ agent.last_action_ts = ev.agent0.last_action_ts
             /\ agent.cooldown_until_ts = ev.agent0.cooldown_until_ts
             /\ agent.actions_this_hour = ev.agent0.actions_this_hour
             /\ agent.adjusts_this_hour = ev.agent0.adjusts_this_hour
       /\ AfterEvaluate => ev.gate # "min_interval"


-----------------------------------------------------------------------------
(* Claims checked under SpecHyst: the volatility latch and its Decision *)

\* C24: on every tick that reaches the volatility check with vol_ema
\* available, a clear latch with vol_ema >= volatility_enter becomes set, a
\* set latch with vol_ema <= volatility_exit becomes clear, and whenever the
\* latch is set after the check the Decision the checks built has
\* block_entry = true.
C24_LatchTransitions ==
    (AfterEvaluate /\ ev.gate = "checks" /\ ev.agent0.filters.vol_ema # None)
    => /\ (/\ ~ev.agent0.blocking_due_to_vol
            /\ ev.agent0.filters.vol_ema >= ev.agent0.hysteresis.volatility_enter)
           => agent.blocking_due_to_vol
       /\ (/\ ev.agent0.blocking_due_to_vol
            /\ ev.agent0.filters.vol_ema <= ev.agent0.hysteresis.volatility_exit)
           => ~agent.blocking_due_to_vol
       /\ agent.blocking_due_to_vol => ev.built.block_entry

\* a tick found the latch set with vol_ema at or below the exit threshold
\* and cleared it, and the Decision built blocks no entry
C24_Witness ==
    /\ AfterEvaluate
    /\ ev.gate = "checks"
    /\ ev.agent0.filters.vol_ema # None
    /\ ev.agent0.blocking_due_to_vol
    /\ ev.agent0.filters.vol_ema <= ev.agent0.hysteresis.volatility_exit
    /\ ~agent.blocking_due_to_vol
    /\ ~ev.built.block_entry


-----------------------------------------------------------------------------
(* SpecDDCap: the absolute drawdown cap, with the drawdown latch entered   *)
(* before the cap, together with it, or after it, and with the            *)
(* account-level stop forcing a close                                      *)

RawsDDCap ==
    {[RawDefault EXCEPT !.max_drawdown_pct = md,
                        !.hysteresis.dd_pause_enter = de] :
        md \in {None, 200}, de \in {None, 0, 300}}

SnapsDDCap ==
    {[BaseState EXCEPT !.account.balance = b,
                       !.account.unrealized_pnl_pct = u,
                       !.account.realized_pnl_pct_today = r] :
        b \in {100, 88, 75}, u \in {0, 0 - 40}, r \in {None, 0 - 70}}

InitDDCap == InitWith(RawsDDCap, {BaseTrader})

NextDDCap ==
    \/ Observe(SnapsDDCap, {30})
    \/ Evaluate
    \/ Apply({0})
    \/ MaybeResume

SpecDDCap == InitDDCap /\ [][NextDDCap]_vars

\* the tick ran the drawdown check and computed dd_ratio >= max_drawdown_pct
DdCapReached ==
    /\ AfterEvaluate /\ ev.gate = "checks"
    /\ state.account.balance # Bad
    /\ agent.session_peak_equity > 0
    /\ RatioGE(DdRatio(Equity(state), agent.session_peak_equity),
               agent.cfg.max_drawdown_pct)

\* C25: on every tick that reaches the drawdown check with
\* dd_ratio >= max_drawdown_pct the drawdown check leaves
\* pause_bot = "max_drawdown", with the latch set before the tick, entered
\* on the tick (where it replaces "session_dd") or clear; the assignments of
\* a tick are last-wins in the order session_dd, max_drawdown, daily_loss,
\* so the Decision the checks build says "max_drawdown" unless the
\* daily-loss check fires after it, and then "daily_loss".
C25_MaxDrawdownOverwrites ==
    DdCapReached
    => ev.built.pause_bot = IF DailyFires THEN "daily_loss" ELSE "max_drawdown"

\* the latch is entered on the very tick the cap fires, and the Decision
\* built says "max_drawdown", not "session_dd"
C25_Witness ==
    /\ DdCapReached
    /\ ~ev.agent0.paused_due_to_dd /\ agent.paused_due_to_dd
    /\ ~DailyFires
    /\ ev.built.pause_bot = "max_drawdown"


-----------------------------------------------------------------------------
(* SpecGates: halt window and spread gate configured, ticks 3 s and 30 s   *)
(* apart, with and without the kill switch                                 *)

\* an absolute halt window over the first 20 s after construction
HaltAtStart ==
    <<[start_ts |-> StartTime, end_ts |-> StartTime + 20,
       start_utc |-> <<>>, end_utc |-> <<>>, weekdays |-> {}]>>

RawsGates ==
    {[RawDefault EXCEPT !.kill_switch = k,
                        !.gates.max_spread_pct = ms,
                        !.halts = h] :
        k \in BOOLEAN, ms \in {None, 5}, h \in {<<>>, HaltAtStart}}

SnapsGates ==
    {[BaseState EXCEPT !.account.unrealized_pnl_pct = u,
                       !.volatility = v,
                       !.spread_pct = sp] :
        u \in {0, 0 - 40}, v \in {None, 100}, sp \in {None, 10}}

InitGates == InitWith(RawsGates, {BaseTrader})

NextGates ==
    \/ Observe(SnapsGates, {3, 30})
    \/ Evaluate
    \/ Apply({0})
    \/ MaybeResume

SpecGates == InitGates /\ [][NextGates]_vars

\* a halt window or the spread gate fired on the tick
SoftGateFired == _is_in_halt(ev.agent0, now) \/ SpreadGate(ev.agent0, state)

\* evaluate() has returned from a call that reached the cooldown gate
ReachedGates ==
    AfterEvaluate /\ ev.agent0.enabled /\ ~ev.agent0.cfg.kill_switch

\* C26: when evaluate() reaches the gates with no cooldown active and
\* now - last_action_ts < min_interval_secs, it returns the empty Decision
\* (no info key) and changes no agent state (latches, session peak, daily
\* tracker, budget counters) and appends no audit record, even if a halt
\* window or the spread gate fired on that tick.
C26_MinIntervalNoOp ==
    (/\ ReachedGates
     /\ ~(ev.agent0.cooldown_until_ts # 0 /\ now < ev.agent0.cooldown_until_ts)
     /\ now - ev.agent0.last_action_ts < ev.agent0.cfg.min_interval_secs)
    => /\ decision = EmptyDecision
       /\ agent = ev.agent0
       /\ audit_log = ev.log0

\* 3 s after a block_entry was applied the spread gate fired, the snapshot
\* would have triggered the force-close stop, and evaluate() returned {}
C26_Witness ==
    /\ ReachedGates
    /\ ev.agent0.cooldown_until_ts = 0
    /\ now - ev.agent0.last_action_ts = 3
    /\ SpreadGate(ev.agent0, state)
    /\ state.account.unrealized_pnl_pct = 0 - 40
    /\ decision = EmptyDecision

\* C27: when evaluate() reaches the gates with cooldown_until_ts non-zero
\* and now < cooldown_until_ts it returns exactly {info: "cooldown"}: a
\* block_entry set by a halt window or the spread gate on the tick is not in
\* it, and the cooldown gate comes before the min-interval gate.
C27_CooldownGate ==
    (/\ ReachedGates
     /\ ev.agent0.cooldown_until_ts # 0
     /\ now < ev.agent0.cooldown_until_ts)
    => decision = CooldownDecision

\* inside the cooldown and inside the minimum interval, with a soft gate
\* fired: the Decision is the cooldown info
C27_Witness ==
    /\ ReachedGates
    /\ ev.agent0.cooldown_until_ts # 0 /\ now < ev.agent0.cooldown_until_ts
    /\ now - ev.agent0.last_action_ts < ev.agent0.cfg.min_interval_secs
    /\ SoftGateFired
    /\ decision = CooldownDecision
    /\ ev.gate = "cooldown"


-----------------------------------------------------------------------------
(* SpecAudit: the audit log over ticks that end at each gate, in the       *)
(* checks with and without a Decision, and in either budget limit, with a  *)
(* non-numeric PnL in the snapshot and with a failing append               *)

RawsAudit ==
    {[RawDefault EXCEPT !.kill_switch = k,
                        !.budgets = b] :
        k \in BOOLEAN,
        b \in {[max_actions_per_hour |-> None, max_adjusts_per_hour |-> 0],
               [max_actions_per_hour |-> 0, max_adjusts_per_hour |-> None]}}

SnapsAudit ==
    {[BaseState EXCEPT !.account.unrealized_pnl_pct = u,
                       !.volatility = v,
                       !.closed_trades = ct] :
        u \in {0, Bad, 0 - 40}, v \in {None, 100}, ct \in {<<>>, LosingEth}}
    \cup
    {[BaseState EXCEPT !.account.unrealized_pnl_pct = 0 - 40,
                       !.volatility = v,
                       !.io_ok = FALSE] : v \in {None, 100}}

InitAudit == InitWith(RawsAudit, {BaseTrader})

NextAudit ==
    \/ Observe(SnapsAudit, {3, 30})
    \/ Evaluate
    \/ Apply({0})
    \/ MaybeResume

SpecAudit == InitAudit /\ [][NextAudit]_vars

\* the tick passed the gates and the checks built a non-empty Decision
BuiltDecision == ev.gate = "checks" /\ ev.built # EmptyDecision

\* the record of the Decision the checks built on this tick
BuiltRecord == AuditPayload(ev.built, agent, state, now)

\* C28: on every tick where evaluate() passes the kill-switch, cooldown and
\* min-interval gates and the checks build a non-empty Decision, exactly one
\* audit record is appended, holding the Decision as it was before budget
\* limiting (also when evaluate() then returns budget_action_limit or
\* strips the adjust); on ticks that end in the kill switch, the cooldown
\* gate, the min-interval gate or an empty Decision no record is appended.
\* A write that fails on I/O is the one case in which the record may be
\* missing.
C28_OneRecordPerDecision ==
    AfterEvaluate
    => audit_log = IF BuiltDecision /\ state.io_ok
                   THEN Append(ev.log0, BuiltRecord)
                   ELSE ev.log0

\* what the audit step does: the record is appended when a non-empty
\* Decision was built, the write succeeds, and float() accepts the
\* snapshot's balance and unrealized PnL
AuditStepAsWritten ==
    AfterEvaluate
    => audit_log =
         IF /\ BuiltDecision
            /\ state.account.balance # Bad
            /\ state.account.unrealized_pnl_pct # Bad
            /\ state.io_ok
         THEN Append(ev.log0, BuiltRecord)
         ELSE ev.log0


-----------------------------------------------------------------------------
(* SpecApply: live and dry-run agents whose host's close_all_positions     *)
(* may raise, applied up to a second after evaluate() across an hour       *)
(* boundary                                                                *)

RawsApply ==
    {[RawDefault EXCEPT !.dry_run = dr,
                        !.budgets.max_adjusts_per_hour = mj] :
        dr \in BOOLEAN, mj \in {None, 0}}

SnapsApply ==
    {[BaseState EXCEPT !.account.unrealized_pnl_pct = u,
                       !.volatility = v,
                       !.closed_trades = ct,
                       !.close_ok = ok] :
        u \in {0, 0 - 40}, v \in {None, 100}, ct \in {<<>>, LosingEth},
        ok \in BOOLEAN}

InitApply == InitWith(RawsApply, {BaseTrader})

NextApply ==
    \/ Observe(SnapsApply, {15, 30})
    \/ Evaluate
    \/ Apply({0, 1})
    \/ MaybeResume

SpecApply == InitApply /\ [][NextApply]_vars

\* apply() carried out an action of the Decision it was given: a pause, a
\* block or an adjust, or a force-close whose step ran to its end
AppliedAction ==
    \/ decision.pause_bot # ""
    \/ decision.block_entry
    \/ HasAdjust(decision)
    \/ ForceCloseDone(ev.agent0, ev.trader0, decision, state.close_ok)

\* the Decision has none of the four action fields
NoActionField ==
    /\ decision.pause_bot = "" /\ ~decision.block_entry
    /\ ~decision.force_close /\ ~HasAdjust(decision)

\* C29: in non-shadow mode apply() of a Decision with at least one applied
\* action (pause_bot, block_entry, force_close or adjust) increases
\* actions_this_hour, counted in the hour window of the call, by exactly 1
\* however many action fields the Decision has, increases adjusts_this_hour
\* by exactly 1 if and only if the Decision has an adjust mapping, and sets
\* last_action_ts to now; apply() of a Decision with none of these fields
\* ({info: ...} or {}) changes none of the three.
C29_OneCountPerApply ==
    (AfterApply /\ ~agent.shadow_mode)
    => \E w \in {_ensure_budget_window(ev.agent0, now)} :
          /\ AppliedAction
              => /\ agent.actions_this_hour = w.actions_this_hour + 1
                 /\ agent.adjusts_this_hour =
                       w.adjusts_this_hour + (IF HasAdjust(decision) THEN 1 ELSE 0)
                 /\ agent.last_action_ts = now
          /\ NoActionField
              => /\ agent.actions_this_hour = ev.agent0.actions_this_hour
                 /\ agent.adjusts_this_hour = ev.agent0.adjusts_this_hour
                 /\ agent.last_action_ts = ev.agent0.last_action_ts

\* a Decision with block_entry, force_close and an adjust was applied:
\* one action and one adjust counted
C29_Witness ==
    /\ AfterApply
    /\ ~agent.shadow_mode
    /\ decision.block_entry /\ decision.force_close /\ HasAdjust(decision)
    /\ ev.agent0.hour_window_start_ts = agent.hour_window_start_ts
    /\ agent.actions_this_hour = ev.agent0.actions_this_hour + 1
    /\ agent.adjusts_this_hour = ev.agent0.adjusts_this_hour + 1
    /\ agent.last_action_ts = now


-----------------------------------------------------------------------------
(* Claims about maybe_resume() checked under SpecDDCap *)

\* C31: maybe_resume() changes nothing when now < cooldown_until_ts or when
\* paused_due_to_dd or paused_due_to_daily is set: the host's paused and
\* skip_entry flags, its global and per-coin forced modes and the agent's
\* cooldown_until_ts are what they were before the call.
C31_NoResumeLeavesAll ==
    (/\ AfterResume
     /\ \/ now < ev.agent0.cooldown_until_ts
        \/ ev.agent0.paused_due_to_dd
        \/ ev.agent0.paused_due_to_daily)
    => /\ trader = ev.trader0
       /\ agent.cooldown_until_ts = ev.agent0.cooldown_until_ts

\* maybe_resume() ran after the cooldown with the drawdown latch set, on a
\* host that apply() had paused, and left it paused
C31_Witness ==
    /\ AfterResume
    /\ now >= ev.agent0.cooldown_until_ts
    /\ ev.agent0.paused_due_to_dd /\ ~ev.agent0.paused_due_to_daily
    /\ ev.trader0.paused /\ ev.trader0.skip_entry
    /\ trader.paused /\ trader.skip_entry
    /\ agent.cooldown_until_ts = ev.agent0.cooldown_until_ts


-----------------------------------------------------------------------------
(* SpecForceClose: losses at, above and below the per-trade stop, on the   *)
(* account and on positions, on hosts with and without                     *)
(* close_all_positions, whose call may raise                               *)

\* an open BTC long next to a flat ETH short
BtcLongEthFlat ==
    BtcLong(1, 0 - 40)
    \o <<[symbol |-> "ETHUSDT", position_side |-> "short", size |-> 0, upnl_pct |-> 0]>>

SnapsForceClose ==
    {[BaseState EXCEPT !.account.unrealized_pnl_pct = u,
                       !.closed_trades = ct,
                       !.close_ok = ok] :
        u \in {0 - 30, 0 - 40}, ct \in {<<>>, LosingEth}, ok \in BOOLEAN}
    \cup
    {[BaseState EXCEPT !.open_positions = ps,
                       !.closed_trades = ct,
                       !.close_ok = ok] :
        ps \in {<<>>, BtcLong(1, 0 - 10), BtcLong(1, 0 - 30), BtcLong(0, 0 - 40),
                BtcLongEthFlat},
        ct \in {<<>>, LosingEth}, ok \in BOOLEAN}

SpecForceClose ==
    /\ InitWith({RawDefault}, TradersRescue)
    /\ [][\/ Observe(SnapsForceClose, {30})
          \/ Evaluate
          \/ Apply({0})
          \/ MaybeResume]_vars

\* the snapshot has a loss strictly below -max_trade_loss_pct, on the account
\* or on an open position
LossBelowStop ==
    \/ OrZero(state.account.unrealized_pnl_pct) < 0 - ev.agent0.cfg.max_trade_loss_pct
    \/ \E i \in DOMAIN state.open_positions :
          OrZero(state.open_positions[i].upnl_pct) < 0 - ev.agent0.cfg.max_trade_loss_pct

\* C32: on a tick that passes the gates the Decision built by the checks has
\* force_close = true if and only if the account-level unrealized_pnl_pct
\* or some open position's upnl_pct is strictly below -max_trade_loss_pct; a
\* value exactly equal to -max_trade_loss_pct does not trigger force_close.
C32_ForceCloseStrictlyBelow ==
    (AfterEvaluate /\ ev.gate = "checks") => (ev.built.force_close <=> LossBelowStop)


\* apply() was given a force_close Decision by a live agent
LiveForceClose ==
    /\ AfterApply
    /\ ~ev.agent0.shadow_mode /\ ~ev.agent0.cfg.dry_run
    /\ decision.force_close

\* the host after the adjust step alone
AdjustedHost(tr) == ApplyAdjust(ev.agent0, tr, decision.adjust, DOMAIN decision.adjust)

\* C33: in non-shadow, non-dry-run mode, when the host's
\* close_all_positions call fails during apply() of a force_close Decision,
\* apply() returns, has called it once and not again, leaves the host's
\* paused and skip_entry flags alone, does not schedule the force-close
\* cooldown, and still carries out an adjust of the same Decision (whose
\* own cooldown is then the one scheduled).
C33_FailedCloseIsSwallowed ==
    (LiveForceClose /\ ev.trader0.has_close_all /\ ~state.close_ok)
    => /\ trader = AdjustedHost([ev.trader0 EXCEPT !.close_calls = @ + 1])
       /\ agent.cooldown_until_ts =
            IF HasAdjust(decision)
            THEN now + ev.agent0.cfg.cooldown_secs_after_adjust
            ELSE ev.agent0.cooldown_until_ts

\* close_all_positions raised on a Decision that also carried an adjust:
\* one call, no pause, the spacing adjusted and the adjust cooldown running
C33_Witness ==
    /\ LiveForceClose /\ ev.trader0.has_close_all /\ ~state.close_ok
    /\ HasAdjust(decision)
    /\ trader.close_calls = ev.trader0.close_calls + 1
    /\ ~trader.paused
    /\ trader.config.bot["long"].entry_grid_spacing_pct = decision.adjust[LongSpacingPath]
    /\ trader.config.bot["long"].entry_grid_spacing_pct
         # ev.trader0.config.bot["long"].entry_grid_spacing_pct
    /\ agent.cooldown_until_ts = now + ev.agent0.cfg.cooldown_secs_after_adjust

\* the coin/side pairs of the host's positions with non-zero size
OpenCoinSides ==
    {<<symbol_to_coin(k[1]), k[2]>> :
        k \in {q \in (DOMAIN ev.trader0.positions) \X Sides :
                 ev.trader0.positions[q[1]][q[2]].size # 0}}

\* the host's per-coin forced mode of (coin, side)
CoinForcedMode(tr, coin, side) ==
    tr.config.coin_overrides[coin].live["forced_mode_" \o side]

\* C34: in non-shadow, non-dry-run mode apply() of a force_close Decision on
\* a host that has close_all_positions (and whose call returns) invokes it
\* once and sets the host's paused and skip_entry flags; on a host without
\* it graceful_stop becomes the forced mode of exactly the coin/side pairs
\* whose open size is non-zero, or of both global sides when no position has
\* a non-zero size; in both cases the force-close step schedules its
\* cooldown, which stands unless the adjust step of the same Decision
\* replaces it.
C34_ForceCloseOnHost ==
    LiveForceClose
    => /\ (ev.trader0.has_close_all /\ state.close_ok)
           => /\ trader.close_calls = ev.trader0.close_calls + 1
              /\ trader.paused /\ trader.skip_entry
       /\ ~ev.trader0.has_close_all
           => /\ trader.close_calls = ev.trader0.close_calls
              /\ \A c \in Coins, sd \in Sides :
                    CoinForcedMode(trader, c, sd) =
                        IF <<c, sd>> \in OpenCoinSides THEN "graceful_stop"
                        ELSE CoinForcedMode(ev.trader0, c, sd)
              /\ \A sd \in Sides :
                    trader.config.live["forced_mode_" \o sd] =
                        IF OpenCoinSides = {} THEN "graceful_stop"
                        ELSE ev.trader0.config.live["forced_mode_" \o sd]
       /\ (~ev.trader0.has_close_all \/ state.close_ok)
           => agent.cooldown_until_ts =
                now + (IF HasAdjust(decision)
                       THEN ev.agent0.cfg.cooldown_secs_after_adjust
                       ELSE ev.agent0.cfg.cooldown_secs_after_force_close)

\* a host without close_all_positions holding a BTC long and a flat ETH
\* short: graceful_stop on BTC long alone, and the force-close cooldown
C34_Witness ==
    /\ LiveForceClose
    /\ ~ev.trader0.has_close_all
    /\ OpenCoinSides = {<<"BTC", "long">>}
    /\ "ETHUSDT" \in DOMAIN ev.trader0.positions
    /\ CoinForcedMode(trader, "BTC", "long") = "graceful_stop"
    /\ CoinForcedMode(trader, "ETH", "short") = ""
    /\ trader.config.live.forced_mode_long = ""
    /\ agent.cooldown_until_ts = now + ev.agent0.cfg.cooldown_secs_after_force_close


-----------------------------------------------------------------------------
(* SpecSetParam: safe_set_param called with paths and values of every kind *)
(* on live and dry-run agents with caps on the long side, on hosts with    *)
(* and without strategy attributes                                         *)

CapsOnLong ==
    [NoCaps EXCEPT !.long = [grid_spacing_pct |-> [min |-> 15, max |-> 18],
                             pos_size_pct     |-> [min |-> 5, max |-> 8]]]

RawsSetParam ==
    {[RawDefault EXCEPT !.dry_run = dr, !.param_caps = CapsOnLong] : dr \in BOOLEAN}

TradersSetParam == {[BaseTrader EXCEPT !.strategy.present = sp] : sp \in BOOLEAN}

\* long.grid_spacing_pct, long.pos_size_pct, short.grid_spacing_pct and a
\* path no target answers to
ParamPaths == {LongSpacingPath, <<"long", "pos_size_pct">>, ShortSpacingPath, <<"foo", "bar">>}

\* a caller hands safe_set_param a path and a value, with the strategy
\* object or with None; the Decision variable keeps the item {path: value}
SetParam ==
    /\ pc = "observe"
    /\ tick < MaxTicks
    /\ \E path \in ParamPaths, value \in {3, 6, 10, 16, 25}, with_strategy \in BOOLEAN :
          /\ trader' = safe_set_param(agent, trader, with_strategy, path, value)
          /\ agent' = Sync(agent, trader')
          /\ decision' = [EmptyDecision EXCEPT !.adjust = path :> value]
    /\ tick' = tick + 1
    /\ ev' = [ev EXCEPT !.gate = "safe_set_param", !.agent0 = agent, !.trader0 = trader]
    /\ UNCHANGED <<now, pc, state, audit_log>>

SpecSetParam == InitWith(RawsSetParam, TradersSetParam) /\ [][SetParam]_vars

\* safe_set_param has just returned from the call with SetPath and SetValue
AfterSetParam == ev.gate = "safe_set_param"
SetPath == CHOOSE path \in DOMAIN decision.adjust : TRUE
SetValue == decision.adjust[SetPath]

\* the caps configured for the path of the call, both bounds present and
\* min <= max
SetCaps == ev.agent0.cfg.param_caps[SetPath[1]][SetPath[2]]
CapsConfigured ==
    /\ SetPath[1] \in Sides
    /\ SetPath[2] \in {"grid_spacing_pct", "pos_size_pct"}
    /\ SetCaps.min # None /\ SetCaps.max # None
    /\ SetCaps.min <= SetCaps.max

\* the host differs from what it was in one place only: the strategy
\* attribute or the configuration entry of the path, which holds w
WrittenOnly(w) ==
    \/ /\ SetPath[2] \in DOMAIN ev.trader0.strategy[SetPath[1]]
       /\ trader = [ev.trader0 EXCEPT !.strategy[SetPath[1]][SetPath[2]] = w]
    \/ /\ SetPath[2] = "grid_spacing_pct"
       /\ trader = [ev.trader0 EXCEPT !.config.bot[SetPath[1]].entry_grid_spacing_pct = w]
    \/ /\ SetPath[2] = "pos_size_pct"
       /\ trader = [ev.trader0 EXCEPT !.config.bot[SetPath[1]].entry_initial_qty_pct = w]

\* C35: outside dry-run safe_set_param on long/short grid_spacing_pct or
\* pos_size_pct with configured caps min <= max writes
\* max(min, min(max, value)), a value in [min, max], and nothing else; in
\* dry-run it writes nothing; and a path whose side is none of long, short,
\* live, coin_overrides and that matches no strategy attribute is skipped,
\* leaving the host as it was.
C35_WritesWithinCaps ==
    AfterSetParam
    => /\ ev.agent0.cfg.dry_run => trader = ev.trader0
       /\ SetPath[1] \notin Sides \cup {"live", "coin_overrides"} => trader = ev.trader0
       /\ (~ev.agent0.cfg.dry_run /\ CapsConfigured)
           => \E w \in SetCaps.min .. SetCaps.max :
                 /\ w = Max(SetCaps.min, Min(SetCaps.max, SetValue))
                 /\ WrittenOnly(w)

\* long.pos_size_pct = 3 was asked with caps [5, 8]: the configuration
\* entry now holds 5
C35_Witness ==
    /\ AfterSetParam
    /\ ~ev.agent0.cfg.dry_run
    /\ SetPath = <<"long", "pos_size_pct">> /\ SetValue = 3
    /\ CapsConfigured
    /\ trader.config.bot["long"].entry_initial_qty_pct = 5
    /\ ev.trader0.config.bot["long"].entry_initial_qty_pct # 5


-----------------------------------------------------------------------------
(* SpecStreak: closed trades of one and of two symbols, streaks inside and *)
(* outside the last 10 trades, with windows 5 (the default), 2 and 0       *)

RawsStreak == {[RawDefault EXCEPT !.losing_streak_window = w] : w \in {None, 2, 0}}

\* n closed trades of a symbol with the same pnl_pct
Trades(sym, pnl, n) == [i \in 1..n |-> [symbol |-> sym, pnl_pct |-> pnl]]

SnapsStreak ==
    {[BaseState EXCEPT !.closed_trades = ct] :
        ct \in {<<>>, LosingEth, MixedEth,
                Trades("BTCUSDT", 0 - 10, 1),
                Trades("BTCUSDT", 10, 1) \o Trades("ETHUSDT", 0 - 10, 2),
                Trades("BTCUSDT", 0 - 10, 2) \o Trades("ETHUSDT", 0 - 10, 2),
                Trades("BTCUSDT", 10, 1) \o Trades("ETHUSDT", 0 - 10, 2)
                    \o Trades("BTCUSDT", 0 - 10, 2),
                Trades("ETHUSDT", 0 - 10, 2) \o Trades("BTCUSDT", 10, 10),
                Trades("ETHUSDT", 0 - 10, 2) \o Trades("BTCUSDT", 10, 9)}}

SpecStreak ==
    /\ InitWith(RawsStreak, {BaseTrader})
    /\ [][\/ Observe(SnapsStreak, {30})
          \/ Evaluate
          \/ Apply({0})
          \/ MaybeResume]_vars

\* positions of the last 10 closed trades, and those of a symbol among them
RecentIdx == {i \in DOMAIN state.closed_trades : i > Len(state.closed_trades) - 10}
IdxOf(sym) == {i \in RecentIdx : state.closed_trades[i].symbol = sym}

\* the symbol has at least w trades among the last 10 and its most recent
\* w trades all have pnl_pct < 0
HasStreak(sym, w) ==
    /\ IdxOf(sym) # {}
    /\ Cardinality(IdxOf(sym)) >= w
    /\ \A i \in IdxOf(sym) :
          Cardinality({j \in IdxOf(sym) : j >= i}) <= w
          => state.closed_trades[i].pnl_pct < 0

\* every one of the symbol's trades among the last 10 has pnl_pct < 0
AllLosses(sym) ==
    /\ IdxOf(sym) # {}
    /\ \A i \in IdxOf(sym) : state.closed_trades[i].pnl_pct < 0

\* the symbols of the last 10 trades, and the one among a set of them that
\* appears first
RecentSymbols == {state.closed_trades[i].symbol : i \in RecentIdx}
FirstAppearing(syms) ==
    CHOOSE sym \in syms :
        \A other \in syms :
            \A j \in IdxOf(other) : \E i \in IdxOf(sym) : i <= j

\* evaluate() has run its checks and raised nothing
StreakCheckRan == AfterEvaluate /\ ev.gate = "checks" /\ ~ev.raised

\* the adjust the check proposed, if any, is one mapping of the two spacing
\* paths for the symbol Q picks out
StreakOutcome(Q(_)) ==
    LET qualifying == {sym \in RecentSymbols : Q(sym)}
    IN  /\ ev.built.adjust # NoAdjust <=> qualifying # {}
        /\ qualifying # {}
           => /\ ev.built._affected_symbol = FirstAppearing(qualifying)
              /\ DOMAIN ev.built.adjust = {LongSpacingPath, ShortSpacingPath}

-----------------------------------------------------------------------------
(* The host's paused flag at the end of a tick *)

\* C37: in non-shadow mode, whenever a tick sets the drawdown-pause latch or
\* the daily-pause latch, the host's paused flag is true at the end of that
\* tick (after evaluate, apply of the returned Decision and maybe_resume),
\* whatever the state of the hourly action budget.
C37_LatchedTickEndsPaused ==
    (AfterResume /\ ~agent.shadow_mode /\ ev.latched) => trader.paused

\* C38: in non-shadow mode with the kill switch configured, the host's
\* paused flag is true at the end of every tick, after evaluate, apply of
\* the kill_switch Decision and maybe_resume.
C38_KillSwitchTickEndsPaused ==
    (AfterResume /\ ~agent.shadow_mode /\ agent.enabled /\ agent.cfg.kill_switch)
    => trader.paused

====
